---- MODULE Spec2Model ----
(***************************************************************************)
(* Shiftly: the shift conflict engine (conflict.service) and the shift     *)
(* controller that calls it, over the Prisma tables they read and write.   *)
(*                                                                         *)
(* Time is a JavaScript Date in local time, counted in milliseconds from   *)
(* the local midnight that begins a Sunday (so getDay of instant 0 is 0).  *)
(* An optional value (undefined / null in the source) is the empty         *)
(* sequence, a present one the one-element sequence.                       *)
(***************************************************************************)
EXTENDS Integers, Sequences, FiniteSets, TLC

\* ------------------------------------------------------------------ bounds
\* Shift rows the store may hold at once.
MaxShifts == 2
\* Shift rows of a store the conflict engine is evaluated on.
MaxEngineRows == 3
\* Request instants are the 6-hour marks from Sunday 12:00 to slot MaxSlot.
MaxSlot == 5
\* The shiftTemplate table holds at most MaxTemplates rows.
MaxTemplates == 2
\* Template date ranges lie between day 0 (a Sunday) and day MaxDay.
MaxDay == 2
\* autoScheduleShifts runs while the shift table stays within MaxAutoRows rows.
MaxAutoRows == 3
MaxInFlight == 2
MaxTokens == 3
MaxToasts == 3

\* ------------------------------------------------------- JavaScript Date
MinuteMs == 1000 * 60
HourMs == 1000 * 60 * 60
DayMs == 24 * HourMs
SlotMs == 6 * HourMs

getDay(date) == (date \div DayMs) % 7
getHours(date) == (date % DayMs) \div HourMs
getMinutes(date) == (date % HourMs) \div MinuteMs
\* Date.prototype.setHours(h, m, s, ms) on the local calendar day of date.
setHours(date, h, m, s, ms) ==
  (date \div DayMs) * DayMs + h * HourMs + m * MinuteMs + s * 1000 + ms
\* Date.prototype.setDate(getDate() + n): the same time of day, n days on.
addDays(date, n) == date + n * DayMs

\* ------------------------------------------------------ JavaScript numbers
\* A number is an IEEE 754 double.  The doubles the hours arithmetic meets
\* (magnitudes from a minute to 2^29 hours) are written exactly in fixed
\* point with 60 fraction bits: i + f1 / 2^30 + f2 / 2^60, the fraction
\* counted upwards from i (so i is the floor).
Limb == 2^30

Fx(i, f1, f2) == [i |-> i, f1 |-> f1, f2 |-> f2]

\* The double of an integer below 2^53.
ToNumber(n) == Fx(n, 0, 0)

IsInteger(a) == a.f1 = 0 /\ a.f2 = 0

\* Exact sum.
FxAdd(a, b) ==
  LET s2 == a.f2 + b.f2
      s1 == a.f1 + b.f1 + (s2 \div Limb)
  IN  Fx(a.i + b.i + (s1 \div Limb), s1 % Limb, s2 % Limb)

\* Exact negation.
FxNeg(a) ==
  IF IsInteger(a) THEN Fx(-a.i, 0, 0)
  ELSE Fx(-a.i - 1,
          IF a.f2 = 0 THEN Limb - a.f1 ELSE Limb - 1 - a.f1,
          (Limb - a.f2) % Limb)

\* The number of bits of n, 0 < n < 2^30.
BitLength(n) == CHOOSE k \in 1..30 : 2^(k - 1) <= n /\ (k = 30 \/ n < 2^k)

\* Round a non-negative fixed-point value to 53 significant bits, to nearest
\* and ties to even; sticky says that the exact value lies above a.
RoundMagnitude(a, sticky) ==
  LET p == IF a.i > 0 THEN BitLength(a.i) - 1
           ELSE IF a.f1 > 0 THEN BitLength(a.f1) - 31
           ELSE BitLength(a.f2) - 61
      \* fraction bits below the last kept one
      t == p - 52 + 60
      Up(low, half, above, odd) ==
        low > half \/ (low = half /\ (above \/ odd))
  IN  IF a.i = 0 /\ a.f1 = 0 /\ a.f2 = 0 THEN a
      ELSE IF t <= 0 THEN a
      ELSE IF t <= 30
      THEN LET low == a.f2 % 2^t
               kept == Fx(a.i, a.f1, a.f2 - low)
               odd == IF t = 30 THEN a.f1 % 2 = 1
                      ELSE (a.f2 \div 2^t) % 2 = 1
           IN  IF Up(low, 2^(t - 1), sticky, odd)
               THEN FxAdd(kept, IF t = 30 THEN Fx(0, 1, 0) ELSE Fx(0, 0, 2^t))
               ELSE kept
      ELSE LET low == a.f1 % 2^(t - 30)
               kept == Fx(a.i, a.f1 - low, 0)
               odd == (a.f1 \div 2^(t - 30)) % 2 = 1
           IN  IF Up(low, 2^(t - 31), a.f2 > 0 \/ sticky, odd)
               THEN FxAdd(kept, Fx(0, 2^(t - 30), 0))
               ELSE kept

Round53(a, sticky) ==
  IF a.i < 0 THEN FxNeg(RoundMagnitude(FxNeg(a), sticky))
  ELSE RoundMagnitude(a, sticky)

RECURSIVE QuotientBits(_, _, _)
\* The next k bits of r / d after the binary point, and the remainder left.
QuotientBits(r, d, k) ==
  IF k = 0 THEN <<0, r>>
  ELSE LET b == IF 2 * r >= d THEN 1 ELSE 0
           rest == QuotientBits(2 * r - b * d, d, k - 1)
       IN  <<b * 2^(k - 1) + rest[1], rest[2]>>

\* n / d in double arithmetic, for integers n and d > 0.
Divide(n, d) ==
  IF n % d = 0 THEN ToNumber(n \div d)
  ELSE LET m == IF n < 0 THEN -n ELSE n
           hi == QuotientBits(m % d, d, 30)
           lo == QuotientBits(hi[2], d, 30)
           q == RoundMagnitude(Fx(m \div d, hi[1], lo[1]), lo[2] # 0)
       IN  IF n < 0 THEN FxNeg(q) ELSE q

\* a + b in double arithmetic.
Plus(a, b) ==
  IF IsInteger(a) /\ IsInteger(b) THEN Fx(a.i + b.i, 0, 0)
  ELSE Round53(FxAdd(a, b), FALSE)

\* a - b in double arithmetic.
Minus(a, b) == Plus(a, FxNeg(b))

\* a > b
Greater(a, b) ==
  \/ a.i > b.i
  \/ a.i = b.i /\ a.f1 > b.f1
  \/ a.i = b.i /\ a.f1 = b.f1 /\ a.f2 > b.f2

\* --------------------------------------------------------- HH:mm strings
\* A time string is the sequence of its characters.
Digits == <<"0", "1", "2", "3", "4", "5", "6", "7", "8", "9">>
DigitValue(c) ==
  CASE c = "0" -> 0 [] c = "1" -> 1 [] c = "2" -> 2 [] c = "3" -> 3
    [] c = "4" -> 4 [] c = "5" -> 5 [] c = "6" -> 6 [] c = "7" -> 7
    [] c = "8" -> 8 [] c = "9" -> 9

RECURSIVE Number(_)
\* Number("07") = 7, Number("") = 0.
Number(str) ==
  IF str = <<>> THEN 0
  ELSE Number(SubSeq(str, 1, Len(str) - 1)) * 10 + DigitValue(str[Len(str)])

\* time.split(':'): the parts before and after the first colon.
split(time) ==
  LET i == CHOOSE k \in 1..Len(time) :
             time[k] = ":" /\ \A j \in 1..(k - 1) : time[j] # ":"
  IN  <<SubSeq(time, 1, i - 1), SubSeq(time, i + 1, Len(time))>>

timeStringToMinutes(time) ==
  LET hours == Number(split(time)[1])
      minutes == Number(split(time)[2])
  IN  hours * 60 + minutes

dateToMinutesOfDay(date) == getHours(date) * 60 + getMinutes(date)

\* toLocaleTimeString('uk-UA', {hour: '2-digit', minute: '2-digit'})
toLocaleTimeString(date) ==
  LET h == getHours(date)
      m == getMinutes(date)
  IN  <<Digits[(h \div 10) + 1], Digits[(h % 10) + 1], ":",
        Digits[(m \div 10) + 1], Digits[(m % 10) + 1]>>

\* getWeekBounds without the Sunday case: diff = getDate() - day + 1.
getWeekBoundsSundayAhead(date) ==
  LET day == getDay(date)
      weekStart == setHours(addDays(date, 1 - day), 0, 0, 0, 0)
      weekEnd == setHours(addDays(weekStart, 6), 23, 59, 59, 999)
  IN  [weekStart |-> weekStart, weekEnd |-> weekEnd]

getWeekBounds(date) ==
  LET day == getDay(date)
      diff == (IF day = 0 THEN -6 ELSE 1) - day
      weekStart == setHours(addDays(date, diff), 0, 0, 0, 0)
      weekEnd == setHours(addDays(weekStart, 6), 23, 59, 59, 999)
  IN  [weekStart |-> weekStart, weekEnd |-> weekEnd]

\* (endTime.getTime() - startTime.getTime()) / (1000 * 60 * 60)
calculateShiftHours(startTime, endTime) == Divide(endTime - startTime, HourMs)

\* ------------------------------------------------------------- the tables
Organizations == {"org-1", "org-2"}
EmployeeIds == {"emp-1", "emp-2"}
Statuses == {"SCHEDULED", "CANCELLED"}
ShiftIds == 1..MaxShifts
Instants == {s * SlotMs : s \in 2..MaxSlot}
\* The (startTime, endTime) pairs a request may carry or an update may leave a
\* row with: every well-formed pair of instants, one that ends where it starts
\* and one that ends before it starts (no handler rejects those).
Intervals ==
  {<<st, en>> \in Instants \X Instants : st < en}
    \cup {<<3 * SlotMs, 3 * SlotMs>>, <<MaxSlot * SlotMs, 2 * SlotMs>>}

T(hh, mm) ==
  <<Digits[(hh \div 10) + 1], Digits[(hh % 10) + 1], ":",
    Digits[(mm \div 10) + 1], Digits[(mm % 10) + 1]>>

Window(e, d, from, to) ==
  [employeeId |-> e, dayOfWeek |-> d, startTime |-> from, endTime |-> to]

\* employeeAvailability rows the employees have declared: emp-1 on Sunday
\* evenings and Monday mornings, emp-2 on Sunday afternoons only.
AvailabilityTables ==
  { { Window("emp-1", 0, T(18, 0), T(23, 59)),
      Window("emp-1", 1, T(0, 0), T(6, 0)),
      Window("emp-2", 0, T(12, 0), T(17, 0)) } }

Employee(e, o, limit) ==
  [id |-> e, organizationId |-> o, weeklyHoursLimit |-> limit]

\* employee rows: both employees work for org-1, org-2 has none yet.
EmployeeTables ==
  { { Employee("emp-1", "org-1", <<12>>),
      Employee("emp-2", "org-1", <<>>) } }

\* --------------------------------------- tables the engine is evaluated on
At(day, hh, mm) == day * DayMs + hh * HourMs + mm * MinuteMs

\* (startTime, endTime) of the rows emp-1 may have around Monday (day 1):
\* two short ones, three with gaps between them, one that covers those
\* three, one that ends at midnight, one that starts the day before.
EngineIntervals ==
  << <<At(1, 0, 0), At(1, 0, 23)>>,
     <<At(1, 0, 23), At(1, 0, 54)>>,
     <<At(1, 3, 0), At(1, 6, 0)>>,
     <<At(1, 9, 0), At(1, 12, 0)>>,
     <<At(1, 15, 0), At(1, 18, 0)>>,
     <<At(1, 3, 0), At(1, 18, 0)>>,
     <<At(1, 18, 0), At(2, 0, 0)>>,
     <<At(0, 22, 0), At(1, 2, 0)>> >>

\* The stores of at most MaxEngineRows of these rows, ids in creation order.
EngineStores ==
  { { [id |-> Cardinality({j \in I : j <= i}),
       employeeId |-> "emp-1",
       departmentId |-> <<>>,
       organizationId |-> "org-1",
       startTime |-> EngineIntervals[i][1],
       endTime |-> EngineIntervals[i][2],
       status |-> "SCHEDULED"] : i \in I } :
      I \in {J \in SUBSET (1..Len(EngineIntervals)) :
               Cardinality(J) <= MaxEngineRows} }

\* Candidates of six minutes, one hour and three hours on that Monday.
EngineCandidates ==
  { <<At(1, 0, 54), At(1, 1, 0)>>,
    <<At(1, 1, 0), At(1, 2, 0)>>,
    <<At(1, 3, 0), At(1, 6, 0)>>,
    <<At(1, 12, 0), At(1, 15, 0)>> }

\* emp-1 with no limit, limit 0, limit 1 and limit 8.
EngineEmployeeTables ==
  { {Employee("emp-1", "org-1", limit)} : limit \in {<<>>, <<0>>, <<1>>, <<8>>} }

\* emp-1 available all Monday, Monday afternoon only, or never.
EngineAvailabilityTables ==
  { {Window("emp-1", 1, T(0, 0), T(23, 59))},
    {Window("emp-1", 1, T(12, 0), T(18, 0))},
    {} }

VARIABLES
  shifts,        \* the shift table: a set of rows with unique id
  availability,  \* the employeeAvailability table
  employees,     \* the employee table
  templates,     \* the shiftTemplate table
  pending,       \* a request suspended at an await, <<>> when none is
  user,          \* req.user of the request being handled, <<>> when none is
  resp,          \* the response to the last request
  refreshTokens, \* the refreshToken table
  refreshed,     \* the 200 answers of POST /auth/refresh
  toasts         \* the toasts array of the toast store

vars ==
  <<shifts, availability, employees, templates, pending, user, resp,
    refreshTokens, refreshed, toasts>>

\* ------------------------------------------------------ conflict.service
Conflict(type, severity, details) ==
  [type |-> type, severity |-> severity, details |-> details]

\* OverlapWhere without its third alternative: a row the candidate contains
\* is not found.
OverlapWhereNoContained(s, input, organizationId) ==
  /\ s.employeeId = input.employeeId
  /\ s.organizationId = organizationId
  /\ s.status # "CANCELLED"
  /\ (input.shiftId # <<>> => s.id # input.shiftId[1])
  /\ \/ s.startTime <= input.startTime /\ s.endTime > input.startTime
     \/ s.startTime < input.endTime /\ s.endTime >= input.endTime

\* OverlapWhere without its first alternative: a row the candidate starts in
\* is not found.
OverlapWhereNoStartInside(s, input, organizationId) ==
  /\ s.employeeId = input.employeeId
  /\ s.organizationId = organizationId
  /\ s.status # "CANCELLED"
  /\ (input.shiftId # <<>> => s.id # input.shiftId[1])
  /\ \/ s.startTime < input.endTime /\ s.endTime >= input.endTime
     \/ s.startTime >= input.startTime /\ s.endTime <= input.endTime

\* OverlapWhere without the id filter: the row being updated is found too.
OverlapWhereNoExclusion(s, input, organizationId) ==
  /\ s.employeeId = input.employeeId
  /\ s.organizationId = organizationId
  /\ s.status # "CANCELLED"
  /\ \/ s.startTime <= input.startTime /\ s.endTime > input.startTime
     \/ s.startTime < input.endTime /\ s.endTime >= input.endTime
     \/ s.startTime >= input.startTime /\ s.endTime <= input.endTime

\* The where clause of checkOverlappingShifts' findFirst.
OverlapWhere(s, input, organizationId) ==
  /\ s.employeeId = input.employeeId
  /\ s.organizationId = organizationId
  /\ s.status # "CANCELLED"
  /\ (input.shiftId # <<>> => s.id # input.shiftId[1])
  /\ \/ s.startTime <= input.startTime /\ s.endTime > input.startTime
     \/ s.startTime < input.endTime /\ s.endTime >= input.endTime
     \/ s.startTime >= input.startTime /\ s.endTime <= input.endTime

\* findFirst has no orderBy: any matching row may be the one returned.  The
\* outcomes are <<>> (null) or <<conflict>>.
checkOverlappingShifts(S, input, organizationId) ==
  LET found == {s \in S : OverlapWhere(s, input, organizationId)}
  IN  IF found = {} THEN {<<>>}
      ELSE { <<Conflict("OVERLAPPING_SHIFT", "error",
                 [conflictingShiftId |-> s.id,
                  conflictingStartTime |-> s.startTime,
                  conflictingEndTime |-> s.endTime])>> : s \in found }

\* NoAvailability taking a missing row for "available all day".
NoAvailabilityAccepted(dayOfWeek) == <<>>

\* No availability set for this day: considered unavailable.
NoAvailability(dayOfWeek) ==
  <<Conflict("OUTSIDE_AVAILABILITY", "warning",
      [dayOfWeek |-> dayOfWeek, availabilitySet |-> FALSE])>>

\* OutsideWindow with the boundaries themselves counted as outside.
OutsideWindowInclusive(shiftStartMinutes, shiftEndMinutes, availStartMinutes, availEndMinutes) ==
  shiftStartMinutes <= availStartMinutes \/ shiftEndMinutes >= availEndMinutes

\* The test that the shift is outside the availability window.
OutsideWindow(shiftStartMinutes, shiftEndMinutes, availStartMinutes, availEndMinutes) ==
  shiftStartMinutes < availStartMinutes \/ shiftEndMinutes > availEndMinutes

\* The outcomes are <<>> (null) or <<conflict>>, one per row findFirst may
\* return.
checkAvailability(A, input) ==
  LET dayOfWeek == getDay(input.startTime)
      found == {a \in A : a.employeeId = input.employeeId
                          /\ a.dayOfWeek = dayOfWeek}
      Check(a) ==
        IF OutsideWindow(dateToMinutesOfDay(input.startTime),
                         dateToMinutesOfDay(input.endTime),
                         timeStringToMinutes(a.startTime),
                         timeStringToMinutes(a.endTime))
        THEN <<Conflict("OUTSIDE_AVAILABILITY", "warning",
                 [dayOfWeek |-> dayOfWeek,
                  availabilityStart |-> a.startTime,
                  availabilityEnd |-> a.endTime,
                  shiftStart |-> toLocaleTimeString(input.startTime),
                  shiftEnd |-> toLocaleTimeString(input.endTime)])>>
        ELSE <<>>
  IN  IF found = {} THEN {NoAvailability(dayOfWeek)}
      ELSE {Check(a) : a \in found}

\* findMany has no orderBy: the rows come in any order.
AnyOrder(rows) ==
  LET n == Cardinality(rows)
  IN  { seq \in [1..n -> rows] : \A i, j \in 1..n : i < j => seq[i] # seq[j] }

RECURSIVE SumHours(_)
\* existingShifts.reduce(sum + calculateShiftHours(...), 0), from the left.
SumHours(existingShifts) ==
  IF existingShifts = <<>> THEN ToNumber(0)
  ELSE LET n == Len(existingShifts)
           shift == existingShifts[n]
       IN  Plus(SumHours(SubSeq(existingShifts, 1, n - 1)),
                calculateShiftHours(shift.startTime, shift.endTime))

\* WeekWhere without the status filter: cancelled rows are summed too.
WeekWhereWithCancelled(s, input, bounds) ==
  /\ s.employeeId = input.employeeId
  /\ (input.shiftId # <<>> => s.id # input.shiftId[1])
  /\ s.startTime >= bounds.weekStart
  /\ s.endTime <= bounds.weekEnd

\* The where clause of checkWeeklyHoursLimit's findMany.
WeekWhere(s, input, bounds) ==
  /\ s.employeeId = input.employeeId
  /\ s.status # "CANCELLED"
  /\ (input.shiftId # <<>> => s.id # input.shiftId[1])
  /\ s.startTime >= bounds.weekStart
  /\ s.endTime <= bounds.weekEnd

\* if (!employee || !employee.weeklyHoursLimit): no row, null or 0.
NoLimitSet(employee) ==
  \/ employee = {}
  \/ \E e \in employee : e.weeklyHoursLimit = <<>> \/ e.weeklyHoursLimit = <<0>>

\* The outcomes are <<>> (null) or <<conflict>>, one per order the week's
\* rows may be summed in.
checkWeeklyHoursLimit(S, E, input) ==
  LET employee == {e \in E : e.id = input.employeeId}
      weeklyHoursLimit ==
        ToNumber((CHOOSE e \in employee : TRUE).weeklyHoursLimit[1])
      bounds == getWeekBounds(input.startTime)
      found == {s \in S : WeekWhere(s, input, bounds)}
      newShiftHours == calculateShiftHours(input.startTime, input.endTime)
      Check(existingShifts) ==
        LET existingHours == SumHours(existingShifts)
            totalHours == Plus(existingHours, newShiftHours)
        IN  IF Greater(totalHours, weeklyHoursLimit)
            THEN <<Conflict("WEEKLY_HOURS_EXCEEDED", "warning",
                     [weeklyLimit |-> weeklyHoursLimit,
                      currentHours |-> existingHours,
                      newShiftHours |-> newShiftHours,
                      totalHours |-> totalHours,
                      exceededBy |-> Minus(totalHours, weeklyHoursLimit)])>>
            ELSE <<>>
  IN  IF NoLimitSet(employee) THEN {<<>>}
      ELSE {Check(existingShifts) : existingShifts \in AnyOrder(found)}

\* Aggregate with canOverride taken from the absence of any conflict.
AggregateOverrideIfNone(overlapConflict, availabilityConflict, hoursConflict) ==
  LET conflicts == overlapConflict \o availabilityConflict \o hoursConflict
  IN  [hasConflicts |-> Len(conflicts) > 0,
       conflicts |-> conflicts,
       canOverride |-> Len(conflicts) = 0]

\* The aggregation of checkShiftConflicts over the three evaluators' results.
Aggregate(overlapConflict, availabilityConflict, hoursConflict) ==
  LET conflicts == overlapConflict \o availabilityConflict \o hoursConflict
      hasErrors == \E i \in 1..Len(conflicts) : conflicts[i].severity = "error"
  IN  [hasConflicts |-> Len(conflicts) > 0,
       conflicts |-> conflicts,
       canOverride |-> ~hasErrors]

\* Every result checkShiftConflicts may return on these tables.
checkShiftConflicts(S, A, E, input, organizationId) ==
  { Aggregate(o, a, h) :
      o \in checkOverlappingShifts(S, input, organizationId),
      a \in checkAvailability(A, input),
      h \in checkWeeklyHoursLimit(S, E, input) }

\* The where clause of suggestAlternativeTimes' findMany: the rows that start
\* and end on the local calendar day of the candidate's startTime.
DayWhere(s, input, organizationId) ==
  /\ s.employeeId = input.employeeId
  /\ s.organizationId = organizationId
  /\ s.status # "CANCELLED"
  /\ s.startTime >= setHours(input.startTime, 0, 0, 0, 0)
  /\ s.endTime <= setHours(input.startTime, 23, 59, 59, 999)

\* orderBy startTime asc: every listing of the rows with ascending startTime
\* (rows with equal startTime come in either order).
OrderByStartTime(rows) ==
  LET n == Cardinality(rows)
  IN  { seq \in [1..n -> rows] :
          /\ \A i, j \in 1..n : i < j => seq[i] # seq[j]
          /\ \A i, j \in 1..n : i < j => seq[i].startTime <= seq[j].startTime }

Suggestion(startTime, endTime, reason) ==
  [startTime |-> startTime, endTime |-> endTime, reason |-> reason]

\* suggestions.slice(0, 3)
MaxSuggestions == 3

\* The suggestions pushed by suggestAlternativeTimes over one listing of the
\* day's rows, before the slice.
FindGaps(existingShifts, availStart, availEnd, shiftDuration) ==
  LET n == Len(existingShifts)
      RECURSIVE Between(_)
      Between(i) ==
        IF i > n - 1 THEN <<>>
        ELSE LET currentEnd == existingShifts[i].endTime
                 nextStart == existingShifts[i + 1].startTime
                 gapDuration == nextStart - currentEnd
             IN  (IF gapDuration >= shiftDuration
                  THEN <<Suggestion(currentEnd, currentEnd + shiftDuration,
                                    "between shifts")>>
                  ELSE <<>>) \o Between(i + 1)
      suggestions ==
        IF n = 0
        THEN IF availStart + shiftDuration <= availEnd
             THEN <<Suggestion(availStart, availStart + shiftDuration,
                               "start of availability")>>
             ELSE <<>>
        ELSE (IF availStart + shiftDuration <= existingShifts[1].startTime
              THEN <<Suggestion(availStart, availStart + shiftDuration,
                                "before first shift")>>
              ELSE <<>>)
             \o Between(1)
             \o (IF existingShifts[n].endTime + shiftDuration <= availEnd
                 THEN <<Suggestion(existingShifts[n].endTime,
                                   existingShifts[n].endTime + shiftDuration,
                                   "after last shift")>>
                 ELSE <<>>)
  IN  suggestions

\* slice(-3) in place of slice(0, 3): the last three are kept.
ScanGapsKeepLast(existingShifts, availStart, availEnd, shiftDuration) ==
  LET suggestions == FindGaps(existingShifts, availStart, availEnd, shiftDuration)
  IN  SubSeq(suggestions,
             IF Len(suggestions) < MaxSuggestions THEN 1
             ELSE Len(suggestions) - MaxSuggestions + 1,
             Len(suggestions))

\* The gap scan of suggestAlternativeTimes with its final slice(0, 3).
ScanGaps(existingShifts, availStart, availEnd, shiftDuration) ==
  LET suggestions == FindGaps(existingShifts, availStart, availEnd, shiftDuration)
  IN  SubSeq(suggestions, 1,
             IF Len(suggestions) < MaxSuggestions THEN Len(suggestions)
             ELSE MaxSuggestions)

\* Every list suggestAlternativeTimes may return on these tables.
suggestAlternativeTimes(S, A, input, organizationId) ==
  LET shiftDuration == input.endTime - input.startTime
      dayOfWeek == getDay(input.startTime)
      found == {a \in A : a.employeeId = input.employeeId
                          /\ a.dayOfWeek = dayOfWeek}
      existing == {s \in S : DayWhere(s, input, organizationId)}
      From(a, existingShifts) ==
        LET availStart == setHours(input.startTime,
                                   Number(split(a.startTime)[1]),
                                   Number(split(a.startTime)[2]), 0, 0)
            availEnd == setHours(input.startTime,
                                 Number(split(a.endTime)[1]),
                                 Number(split(a.endTime)[2]), 0, 0)
        IN  ScanGaps(existingShifts, availStart, availEnd, shiftDuration)
  IN  IF found = {} THEN {<<>>}
      ELSE { From(a, existingShifts) :
               a \in found, existingShifts \in OrderByStartTime(existing) }

\* ------------------------------------------------------------ utils/tenant
validateEmployeeTenant(E, employeeId, organizationId) ==
  \E e \in E : e.id = employeeId /\ e.organizationId = organizationId

\* The department table: one department in each organization.  No modelled
\* route writes it.
Departments ==
  { [id |-> "dep-1", organizationId |-> "org-1"],
    [id |-> "dep-2", organizationId |-> "org-2"] }

DepartmentIds == {d.id : d \in Departments}

validateDepartmentTenant(departmentId, organizationId) ==
  \E d \in Departments : d.id = departmentId /\ d.organizationId = organizationId

\* validateTenantResources without its department branch.
validateEmployeeOnly(E, organizationId, employeeId, departmentId) ==
  IF employeeId # <<>> /\ ~validateEmployeeTenant(E, employeeId[1], organizationId)
  THEN [valid |-> FALSE, error |-> <<"employee">>]
  ELSE [valid |-> TRUE, error |-> <<>>]

\* Only a resource the request names is validated, the employee first; the
\* first failure is returned.
validateTenantResources(E, organizationId, employeeId, departmentId) ==
  IF employeeId # <<>> /\ ~validateEmployeeTenant(E, employeeId[1], organizationId)
  THEN [valid |-> FALSE, error |-> <<"employee">>]
  ELSE IF /\ departmentId # <<>>
          /\ ~validateDepartmentTenant(departmentId[1], organizationId)
  THEN [valid |-> FALSE, error |-> <<"department">>]
  ELSE [valid |-> TRUE, error |-> <<>>]

\* ------------------------------------------------------------ the requests
Response(op, status, organizationId, input, overrideConflicts, result, suggestions) ==
  [op |-> op, status |-> status, organizationId |-> organizationId,
   input |-> input, overrideConflicts |-> overrideConflicts,
   result |-> result, suggestions |-> suggestions]

NoResponse == Response("none", 0, <<>>, <<>>, FALSE, <<>>, <<>>)

\* res.status(403).json({ message: validation.error })
Forbidden(op, organizationId, input, overrideConflicts, error) ==
  [op |-> op, status |-> 403, organizationId |-> organizationId,
   input |-> input, overrideConflicts |-> overrideConflicts,
   result |-> <<>>, suggestions |-> <<>>, message |-> error]

ShiftInput(employeeId, startTime, endTime, shiftId) ==
  [employeeId |-> employeeId, startTime |-> startTime, endTime |-> endTime,
   shiftId |-> shiftId]

Opt(values) == {<<>>} \cup {<<v>> : v \in values}
OrElse(opt, default) == IF opt # <<>> THEN opt[1] ELSE default

\* Bearer tokens: none, one that fails jwt.verify, one per organization.
Tokens == Opt({"forged"} \cup Organizations)

Init ==
  /\ shifts = {}
  /\ availability \in AvailabilityTables
  /\ employees \in EmployeeTables
  /\ templates = {}
  /\ pending = <<>>
  /\ user = <<>>
  /\ resp = NoResponse
  /\ refreshTokens = {}
  /\ refreshed = {}
  /\ toasts = <<>>

\* router.use(authMiddleware): every shift route runs it first, on a fresh
\* response object.  Requests are handled one at a time.
authMiddleware(token) ==
  /\ user = <<>>
  /\ IF token = <<>> \/ token[1] \notin Organizations
     THEN /\ resp' = Response("authMiddleware", 401, <<>>, <<>>, FALSE, <<>>, <<>>)
          /\ user' = <<>>
     ELSE /\ resp' = NoResponse
          /\ user' = <<[organizationId |-> token[1]]>>
  /\ UNCHANGED <<shifts, availability, employees, templates, pending,
               refreshTokens, refreshed, toasts>>

\* Blocked without the hasErrors branch: overrideConflicts lets anything pass.
BlockedUnlessOverridden(conflictResult, overrideConflicts) ==
  conflictResult.hasConflicts /\ ~overrideConflicts

\* The branch both createShift and updateShift take on the conflict result:
\* TRUE when the request is answered 409.
Blocked(conflictResult, overrideConflicts) ==
  LET hasErrors == \E i \in 1..Len(conflictResult.conflicts) :
                     conflictResult.conflicts[i].severity = "error"
  IN  conflictResult.hasConflicts /\ (hasErrors \/ ~overrideConflicts)

\* prisma.shift.create generates the id; the least free one stands for it.
NewId(S) ==
  CHOOSE i \in ShiftIds :
    /\ \A s \in S : s.id # i
    /\ \A j \in ShiftIds : (\A s \in S : s.id # j) => i <= j

createShift(employeeId, startTime, endTime, departmentId, status, overrideConflicts) ==
  /\ user # <<>>
  /\ LET organizationId == user[1].organizationId
         input == ShiftInput(employeeId, startTime, endTime, <<>>)
         validation == validateTenantResources(employees, organizationId,
                                               <<employeeId>>, departmentId)
     IN  IF ~validation.valid
         THEN /\ resp' = Forbidden("createShift", organizationId, input,
                                   overrideConflicts, validation.error)
              /\ UNCHANGED shifts
         ELSE \E conflictResult \in checkShiftConflicts(shifts, availability,
                                      employees, input, organizationId) :
                IF Blocked(conflictResult, overrideConflicts)
                THEN /\ \E suggestions \in suggestAlternativeTimes(shifts,
                                             availability, input, organizationId) :
                          resp' = Response("createShift", 409, organizationId, input,
                                           overrideConflicts, <<conflictResult>>,
                                           <<suggestions>>)
                     /\ UNCHANGED shifts
                ELSE /\ Cardinality(shifts) < MaxShifts
                     /\ shifts' = shifts \cup
                          {[id |-> NewId(shifts),
                            employeeId |-> employeeId,
                            departmentId |-> departmentId,
                            organizationId |-> organizationId,
                            startTime |-> startTime,
                            endTime |-> endTime,
                            status |-> OrElse(status, "SCHEDULED")]}
                     /\ resp' = Response("createShift", 201, organizationId, input,
                                         overrideConflicts, <<conflictResult>>, <<>>)
  /\ user' = <<>>
  /\ UNCHANGED <<availability, employees, templates, pending,
               refreshTokens, refreshed, toasts>>

updateShift(id, employeeId, startTime, endTime, departmentId, status, overrideConflicts) ==
  /\ user # <<>>
  /\ LET organizationId == user[1].organizationId
         found == {s \in shifts : s.id = id /\ s.organizationId = organizationId}
         existingShift == CHOOSE s \in found : TRUE
         input == ShiftInput(OrElse(employeeId, existingShift.employeeId),
                             OrElse(startTime, existingShift.startTime),
                             OrElse(endTime, existingShift.endTime),
                             <<id>>)
     IN  IF found = {}
         THEN /\ resp' = Response("updateShift", 404, organizationId, <<>>,
                                  overrideConflicts, <<>>, <<>>)
              /\ UNCHANGED shifts
         ELSE IF ~validateTenantResources(employees, organizationId, employeeId,
                                         departmentId).valid
         THEN /\ resp' = Forbidden("updateShift", organizationId, <<>>,
                              overrideConflicts,
                              validateTenantResources(employees, organizationId,
                                employeeId, departmentId).error)
              /\ UNCHANGED shifts
         ELSE \E conflictResult \in checkShiftConflicts(shifts, availability,
                                      employees, input, organizationId) :
                IF Blocked(conflictResult, overrideConflicts)
                THEN /\ \E suggestions \in suggestAlternativeTimes(shifts,
                                             availability, input, organizationId) :
                          resp' = Response("updateShift", 409, organizationId, input,
                                           overrideConflicts, <<conflictResult>>,
                                           <<suggestions>>)
                     /\ UNCHANGED shifts
                ELSE /\ shifts' = (shifts \ {existingShift}) \cup
                          {[existingShift EXCEPT
                              !.employeeId = OrElse(employeeId, @),
                              !.departmentId = IF departmentId # <<>>
                                               THEN departmentId ELSE @,
                              !.startTime = OrElse(startTime, @),
                              !.endTime = OrElse(endTime, @),
                              !.status = OrElse(status, @)]}
                     /\ resp' = Response("updateShift", 200, organizationId, input,
                                         overrideConflicts, <<conflictResult>>, <<>>)
  /\ user' = <<>>
  /\ UNCHANGED <<availability, employees, templates, pending,
               refreshTokens, refreshed, toasts>>

deleteShift(id) ==
  /\ user # <<>>
  /\ LET organizationId == user[1].organizationId
         found == {s \in shifts : s.id = id /\ s.organizationId = organizationId}
     IN  IF found = {}
         THEN /\ resp' = Response("deleteShift", 404, organizationId, <<>>, FALSE,
                                  <<>>, <<>>)
              /\ UNCHANGED shifts
         ELSE /\ shifts' = {s \in shifts : s.id # id}
              /\ resp' = Response("deleteShift", 200, organizationId, <<>>, FALSE,
                                  <<>>, <<>>)
  /\ user' = <<>>
  /\ UNCHANGED <<availability, employees, templates, pending,
               refreshTokens, refreshed, toasts>>

checkConflicts(employeeId, startTime, endTime, shiftId) ==
  /\ user # <<>>
  /\ LET organizationId == user[1].organizationId
         input == ShiftInput(employeeId, startTime, endTime, shiftId)
     IN  IF ~validateTenantResources(employees, organizationId, <<employeeId>>, <<>>).valid
         THEN resp' = Forbidden("checkConflicts", organizationId, input, FALSE,
                                <<"employee">>)
         ELSE \E conflictResult \in checkShiftConflicts(shifts, availability,
                                      employees, input, organizationId) :
                IF conflictResult.hasConflicts
                THEN \E suggestions \in suggestAlternativeTimes(shifts,
                                          availability, input, organizationId) :
                       resp' = Response("checkConflicts", 200, organizationId, input,
                                        FALSE, <<conflictResult>>, <<suggestions>>)
                ELSE resp' = Response("checkConflicts", 200, organizationId, input,
                                      FALSE, <<conflictResult>>, <<>>)
  /\ user' = <<>>
  /\ UNCHANGED <<shifts, availability, employees, templates, pending,
               refreshTokens, refreshed, toasts>>

\* ------------------------------------------------- failing and racing reads
\* The reads checkShiftConflicts' evaluators await.
Reads ==
  {"shift.findFirst", "employeeAvailability.findFirst", "employee.findUnique",
   "shift.findMany"}

\* Promise.all rejects when a read an evaluator performs rejects; the weekly
\* findMany is performed only past the "no limit set" return.
Rejects(failed, E, input) ==
  /\ failed # <<>>
  /\ failed[1] = "shift.findMany" =>
       ~NoLimitSet({e \in E : e.id = input.employeeId})

\* createShift when checkShiftConflicts rejects: the catch block answers.
createShiftRejected(failed, employeeId, startTime, endTime, overrideConflicts) ==
  /\ user # <<>>
  /\ LET organizationId == user[1].organizationId
         input == ShiftInput(employeeId, startTime, endTime, <<>>)
     IN  /\ validateTenantResources(employees, organizationId, <<employeeId>>, <<>>).valid
         /\ Rejects(failed, employees, input)
         /\ resp' = Response("createShift", 500, organizationId, input,
                             overrideConflicts, <<>>, <<>>)
  /\ user' = <<>>
  /\ UNCHANGED <<shifts, availability, employees, templates, pending,
               refreshTokens, refreshed, toasts>>

\* updateShift when checkShiftConflicts rejects: the catch block answers.
updateShiftRejected(failed, id, employeeId, startTime, endTime, overrideConflicts) ==
  /\ user # <<>>
  /\ LET organizationId == user[1].organizationId
         found == {s \in shifts : s.id = id /\ s.organizationId = organizationId}
         existingShift == CHOOSE s \in found : TRUE
         input == ShiftInput(OrElse(employeeId, existingShift.employeeId),
                             OrElse(startTime, existingShift.startTime),
                             OrElse(endTime, existingShift.endTime),
                             <<id>>)
     IN  /\ found # {}
         /\ validateTenantResources(employees, organizationId, employeeId, <<>>).valid
         /\ Rejects(failed, employees, input)
         /\ resp' = Response("updateShift", 500, organizationId, input,
                             overrideConflicts, <<>>, <<>>)
  /\ user' = <<>>
  /\ UNCHANGED <<shifts, availability, employees, templates, pending,
               refreshTokens, refreshed, toasts>>

\* checkConflicts up to its first await past validation: the request is
\* suspended and other requests are handled meanwhile.
checkConflictsValidate(employeeId, startTime, endTime, shiftId) ==
  /\ user # <<>>
  /\ pending = <<>>
  /\ LET organizationId == user[1].organizationId
         input == ShiftInput(employeeId, startTime, endTime, shiftId)
     IN  IF ~validateTenantResources(employees, organizationId, <<employeeId>>, <<>>).valid
         THEN /\ resp' = Forbidden("checkConflicts", organizationId, input,
                                   FALSE, <<"employee">>)
              /\ UNCHANGED pending
         ELSE /\ pending' = <<[organizationId |-> organizationId, input |-> input,
                               settled |-> <<>>]>>
              /\ UNCHANGED resp
  /\ user' = <<>>
  /\ UNCHANGED <<shifts, availability, employees, templates,
               refreshTokens, refreshed, toasts>>

\* The rest of checkConflicts, on the tables as they are when it resumes.
checkConflictsEvaluate(failed) ==
  /\ pending # <<>>
  /\ user = <<>>
  /\ LET organizationId == pending[1].organizationId
         input == pending[1].input
     IN  IF Rejects(failed, employees, input)
         THEN resp' = Response("checkConflicts", 500, organizationId, input, FALSE,
                               <<>>, <<>>)
         ELSE \E conflictResult \in checkShiftConflicts(shifts, availability,
                                      employees, input, organizationId) :
                IF conflictResult.hasConflicts
                THEN \E suggestions \in suggestAlternativeTimes(shifts,
                                          availability, input, organizationId) :
                       resp' = Response("checkConflicts", 200, organizationId, input,
                                        FALSE, <<conflictResult>>, <<suggestions>>)
                ELSE resp' = Response("checkConflicts", 200, organizationId, input,
                                      FALSE, <<conflictResult>>, <<>>)
  /\ pending' = <<>>
  /\ UNCHANGED <<shifts, availability, employees, templates, user,
               refreshTokens, refreshed, toasts>>

\* employee.controller's deleteEmployee.  The schema decides what a delete
\* does to the rows that reference the employee: they go with it (cascade)
\* or the delete throws and the catch block answers (restrict).
deleteEmployee(id, cascade) ==
  /\ user # <<>>
  /\ LET organizationId == user[1].organizationId
         found == {e \in employees : e.id = id /\ e.organizationId = organizationId}
         referenced == \/ \E s \in shifts : s.employeeId = id
                       \/ \E a \in availability : a.employeeId = id
     IN  IF found = {}
         THEN /\ resp' = Response("deleteEmployee", 404, organizationId, <<>>,
                                  FALSE, <<>>, <<>>)
              /\ UNCHANGED <<shifts, availability, employees>>
         ELSE IF referenced /\ ~cascade
         THEN /\ resp' = Response("deleteEmployee", 500, organizationId, <<>>,
                                  FALSE, <<>>, <<>>)
              /\ UNCHANGED <<shifts, availability, employees>>
         ELSE /\ employees' = employees \ found
              /\ shifts' = {s \in shifts : s.employeeId # id}
              /\ availability' = {a \in availability : a.employeeId # id}
              /\ resp' = Response("deleteEmployee", 200, organizationId, <<>>,
                                  FALSE, <<>>, <<>>)
  /\ user' = <<>>
  /\ UNCHANGED <<templates, pending,
               refreshTokens, refreshed, toasts>>

\* --------------------------------------------------------------- templates
DigitSet == {Digits[i] : i \in 1..Len(Digits)}

\* /^([0-1]?[0-9]|2[0-3]):[0-5][0-9]$/.test(time)
timeRegex(time) ==
  LET n == Len(time)
  IN  /\ n \in {4, 5}
      /\ time[n - 2] = ":"
      /\ time[n - 1] \in {"0", "1", "2", "3", "4", "5"}
      /\ time[n] \in DigitSet
      /\ \/ n = 4 /\ time[1] \in DigitSet
         \/ n = 5 /\ time[1] \in {"0", "1"} /\ time[2] \in DigitSet
         \/ n = 5 /\ time[1] = "2" /\ time[2] \in {"0", "1", "2", "3"}

TemplateIds == 1..MaxTemplates

\* (dayOfWeek, startTime, endTime, requiredEmployees) of the bodies sent to
\* POST /templates: Sunday and Monday templates, one overnight, one without
\* a head count, one with a negative one, one for a day nobody is available
\* on, and two the validation refuses.
TemplateBodies ==
  { <<0, T(9, 0), T(17, 0), <<>> >>,
    <<0, T(12, 0), T(18, 0), <<3>> >>,
    <<0, T(9, 0), T(17, 0), <<-1>> >>,
    <<1, T(22, 0), T(6, 0), <<2>> >>,
    <<2, T(8, 0), T(12, 0), <<1>> >>,
    <<7, T(9, 0), T(17, 0), <<1>> >>,
    <<1, T(24, 0), T(6, 0), <<1>> >> }

\* startDate and endDate of a template request: midnight or noon of a day.
TemplateDates == {At(d, h, 0) : d \in 0..MaxDay, h \in {0, 12}}

\* The responses of the template routes: the lists the handler loaded, the
\* shifts it answers with and their count.
TemplateResponse(op, status, organizationId, input, loaded, list) ==
  [op |-> op, status |-> status, organizationId |-> organizationId,
   input |-> input, overrideConflicts |-> FALSE, result |-> <<>>,
   suggestions |-> <<>>, loaded |-> loaded, shifts |-> list,
   count |-> Len(list)]

TemplateInput(templateIds, startDate, endDate) ==
  [templateIds |-> templateIds, startDate |-> startDate, endDate |-> endDate]

NothingLoaded == [templates |-> <<>>, employees |-> <<>>]

createTemplate(dayOfWeek, startTime, endTime, departmentId, requiredEmployees) ==
  /\ user # <<>>
  /\ Cardinality(templates) < MaxTemplates
  /\ LET organizationId == user[1].organizationId
         id == CHOOSE i \in TemplateIds :
                 /\ \A t \in templates : t.id # i
                 /\ \A j \in TemplateIds :
                      (\A t \in templates : t.id # j) => i <= j
     IN  IF dayOfWeek < 0 \/ dayOfWeek > 6
         THEN /\ resp' = TemplateResponse("createTemplate", 400, organizationId,
                                          <<>>, NothingLoaded, <<>>)
              /\ UNCHANGED templates
         ELSE IF ~timeRegex(startTime) \/ ~timeRegex(endTime)
         THEN /\ resp' = TemplateResponse("createTemplate", 400, organizationId,
                                          <<>>, NothingLoaded, <<>>)
              /\ UNCHANGED templates
         ELSE IF ~validateTenantResources(employees, organizationId, <<>>,
                                         departmentId).valid
         THEN /\ resp' = Forbidden("createTemplate", organizationId, <<>>, FALSE,
                                   <<"department">>)
              /\ UNCHANGED templates
         ELSE /\ templates' = templates \cup
                   {[id |-> id,
                     organizationId |-> organizationId,
                     departmentId |-> departmentId,
                     dayOfWeek |-> dayOfWeek,
                     startTime |-> startTime,
                     endTime |-> endTime,
                     requiredEmployees |->
                       IF requiredEmployees = <<>> \/ requiredEmployees[1] = 0
                       THEN 1 ELSE requiredEmployees[1]]}
              /\ resp' = TemplateResponse("createTemplate", 201, organizationId,
                                          <<>>, NothingLoaded, <<>>)
  /\ user' = <<>>
  /\ UNCHANGED <<shifts, availability, employees, pending,
               refreshTokens, refreshed, toasts>>

\* A field of a request body: <<>> when the body leaves it out, <<v>> when it
\* carries v (v may be the empty string, the empty sequence of characters).
Truthy(field) == field # <<>> /\ field[1] # <<>>

\* (dayOfWeek, startTime, endTime, requiredEmployees) of the bodies sent to
\* PUT /templates/:id: another day, a day that does not exist, another start
\* with a head count of 0, the empty string as start, and a start and an end
\* the pattern refuses.
TemplateUpdates ==
  { << <<1>>, <<>>, <<>>, <<>> >>,
    << <<7>>, <<>>, <<>>, <<>> >>,
    << <<>>, <<T(8, 0)>>, <<>>, <<0>> >>,
    << <<>>, << <<>> >>, <<>>, <<>> >>,
    << <<>>, <<T(24, 0)>>, <<>>, <<>> >>,
    << <<>>, <<>>, <<T(24, 0)>>, <<>> >> }

updateTemplate(id, dayOfWeek, startTime, endTime, departmentId, requiredEmployees) ==
  /\ user # <<>>
  /\ LET organizationId == user[1].organizationId
         existingTemplate == {t \in templates : /\ t.id = id
                                                /\ t.organizationId = organizationId}
         Answer(status) == TemplateResponse("updateTemplate", status,
                             organizationId, <<>>, NothingLoaded, <<>>)
     IN  IF existingTemplate = {}
         THEN resp' = Answer(404) /\ UNCHANGED templates
         ELSE IF dayOfWeek # <<>> /\ (dayOfWeek[1] < 0 \/ dayOfWeek[1] > 6)
         THEN resp' = Answer(400) /\ UNCHANGED templates
         ELSE IF Truthy(startTime) /\ ~timeRegex(startTime[1])
         THEN resp' = Answer(400) /\ UNCHANGED templates
         ELSE IF Truthy(endTime) /\ ~timeRegex(endTime[1])
         THEN resp' = Answer(400) /\ UNCHANGED templates
         ELSE IF ~validateTenantResources(employees, organizationId, <<>>,
                                         departmentId).valid
         THEN /\ resp' = Forbidden("updateTemplate", organizationId, <<>>, FALSE,
                                   <<"department">>)
              /\ UNCHANGED templates
         ELSE /\ templates' =
                   { IF t.id # id THEN t
                     ELSE [t EXCEPT
                             !.departmentId = IF departmentId # <<>>
                                              THEN departmentId ELSE @,
                             !.dayOfWeek = OrElse(dayOfWeek, @),
                             !.startTime = OrElse(startTime, @),
                             !.endTime = OrElse(endTime, @),
                             !.requiredEmployees = OrElse(requiredEmployees, @)] :
                     t \in templates }
              /\ resp' = Answer(200)
  /\ user' = <<>>
  /\ UNCHANGED <<shifts, availability, employees, pending,
               refreshTokens, refreshed, toasts>>

deleteTemplate(id) ==
  /\ user # <<>>
  /\ LET organizationId == user[1].organizationId
     IN  IF \A t \in templates : t.id # id \/ t.organizationId # organizationId
         THEN /\ resp' = TemplateResponse("deleteTemplate", 404, organizationId,
                                          <<>>, NothingLoaded, <<>>)
              /\ UNCHANGED templates
         ELSE /\ templates' = {t \in templates : t.id # id}
              /\ resp' = TemplateResponse("deleteTemplate", 200, organizationId,
                                          <<>>, NothingLoaded, <<>>)
  /\ user' = <<>>
  /\ UNCHANGED <<shifts, availability, employees, pending,
               refreshTokens, refreshed, toasts>>

\* The elements of an array.
Range(array) == {array[i] : i \in 1..Len(array)}

RECURSIVE Flatten(_)
\* The concatenation of a sequence of sequences.
Flatten(lists) ==
  IF lists = <<>> THEN <<>> ELSE Head(lists) \o Flatten(Tail(lists))

\* array.filter(test), for test given as the set of the elements that pass.
filter(array, passing) == SelectSeq(array, LAMBDA x : x \in passing)

\* for (date = new Date(start); date <= end; date.setDate(date.getDate() + 1))
\* : the values date takes.
RECURSIVE DatesFrom(_, _)
DatesFrom(date, end) ==
  IF date <= end THEN <<date>> \o DatesFrom(addDays(date, 1), end) ELSE <<>>

\* The templates of a loaded list for the day of a date, in list order.
dayTemplates(loaded, date) ==
  filter(loaded, {t \in Range(loaded) : t.dayOfWeek = getDay(date)})

\* The previews applyTemplates pushes for one template on one date.
PreviewsOf(template, date) ==
  LET shiftStart == setHours(date, Number(split(template.startTime)[1]),
                             Number(split(template.startTime)[2]), 0, 0)
      shiftEnd == setHours(date, Number(split(template.endTime)[1]),
                           Number(split(template.endTime)[2]), 0, 0)
  IN  [i \in 1..template.requiredEmployees |->
         [templateId |-> template.id,
          startTime |-> shiftStart,
          endTime |-> IF shiftEnd <= shiftStart THEN addDays(shiftEnd, 1)
                      ELSE shiftEnd,
          dayOfWeek |-> template.dayOfWeek]]

applyTemplates(templateIds, startDate, endDate) ==
  /\ user # <<>>
  /\ LET organizationId == user[1].organizationId
         input == TemplateInput(templateIds, startDate, endDate)
         found == {t \in templates : /\ t.id \in templateIds
                                     /\ t.organizationId = organizationId}
     IN  IF templateIds = {} \/ startDate = <<>> \/ endDate = <<>>
         THEN resp' = TemplateResponse("applyTemplates", 400, organizationId,
                                       input, NothingLoaded, <<>>)
         ELSE IF found = {}
         THEN resp' = TemplateResponse("applyTemplates", 404, organizationId,
                                       input, NothingLoaded, <<>>)
         ELSE \E loaded \in AnyOrder(found) :
                LET dates == DatesFrom(startDate[1], endDate[1])
                    shiftsToCreate ==
                      Flatten([d \in 1..Len(dates) |->
                        LET day == dayTemplates(loaded, dates[d])
                        IN  Flatten([k \in 1..Len(day) |->
                                       PreviewsOf(day[k], dates[d])])])
                IN  resp' = TemplateResponse("applyTemplates", 200, organizationId,
                              input, [templates |-> loaded, employees |-> <<>>],
                              shiftsToCreate)
  /\ user' = <<>>
  /\ UNCHANGED <<shifts, availability, employees, templates, pending,
               refreshTokens, refreshed, toasts>>

\* array.slice(0, end) taking every element.
sliceWhole(array, end) == array

\* array.slice(0, end): a negative end counts from the end of the array.
slice(array, end) ==
  LET n == Len(array)
      to == IF end < 0 THEN (IF n + end < 0 THEN 0 ELSE n + end)
            ELSE (IF end > n THEN n ELSE end)
  IN  SubSeq(array, 1, to)

\* The employees of a loaded list with an availability row for the day of a
\* date, in list order.
availableEmployees(A, loaded, date) ==
  filter(loaded, {e \in Range(loaded) :
                    \E a \in A : a.employeeId = e.id /\ a.dayOfWeek = getDay(date)})

\* The data of the shifts autoScheduleShifts creates for one template on one
\* date.
AssignmentsOf(A, employeesLoaded, template, date) ==
  LET employeesToAssign == slice(availableEmployees(A, employeesLoaded, date),
                                 template.requiredEmployees)
  IN  [i \in 1..Len(employeesToAssign) |->
         [employeeId |-> employeesToAssign[i].id,
          departmentId |-> template.departmentId,
          startTime |-> setHours(date, Number(split(template.startTime)[1]),
                                 Number(split(template.startTime)[2]), 0, 0),
          endTime |-> setHours(date, Number(split(template.endTime)[1]),
                               Number(split(template.endTime)[2]), 0, 0)]]

\* The ids prisma.shift.create gives to the k-th shift of a request.
AutoId(S, k) ==
  k + (IF S = {} THEN 0
       ELSE CHOOSE m \in {s.id : s \in S} : \A s \in S : s.id <= m)

autoScheduleShifts(templateIds, startDate, endDate) ==
  /\ user # <<>>
  /\ LET organizationId == user[1].organizationId
         input == TemplateInput(templateIds, startDate, endDate)
         found == {t \in templates : /\ t.id \in templateIds
                                     /\ t.organizationId = organizationId}
         staff == {e \in employees : e.organizationId = organizationId}
     IN  \E loaded \in AnyOrder(found), employeesLoaded \in AnyOrder(staff) :
           LET dates == IF startDate = <<>> \/ endDate = <<>> THEN <<>>
                        ELSE DatesFrom(startDate[1], endDate[1])
               data ==
                 Flatten([d \in 1..Len(dates) |->
                   LET day == dayTemplates(loaded, dates[d])
                   IN  Flatten([k \in 1..Len(day) |->
                                  AssignmentsOf(availability, employeesLoaded,
                                                day[k], dates[d])])])
               createdShifts ==
                 [k \in 1..Len(data) |->
                    [id |-> AutoId(shifts, k),
                     employeeId |-> data[k].employeeId,
                     departmentId |-> data[k].departmentId,
                     organizationId |-> organizationId,
                     startTime |-> data[k].startTime,
                     endTime |-> data[k].endTime,
                     status |-> "SCHEDULED"]]
           IN  /\ Cardinality(shifts) + Len(data) <= MaxAutoRows
               /\ shifts' = shifts \cup Range(createdShifts)
               /\ resp' = TemplateResponse("autoScheduleShifts", 201,
                            organizationId, input,
                            [templates |-> loaded, employees |-> employeesLoaded],
                            createdShifts)
  /\ user' = <<>>
  /\ UNCHANGED <<availability, employees, templates, pending,
               refreshTokens, refreshed, toasts>>


\* autoScheduleShifts when the failed-th prisma.shift.create of the loop
\* rejects: the creates before it have been awaited one by one, the catch
\* block answers 500.
autoScheduleShiftsRejected(failed, templateIds, startDate, endDate) ==
  /\ user # <<>>
  /\ LET organizationId == user[1].organizationId
         input == TemplateInput(templateIds, startDate, endDate)
         found == {t \in templates : /\ t.id \in templateIds
                                     /\ t.organizationId = organizationId}
         staff == {e \in employees : e.organizationId = organizationId}
     IN  \E loaded \in AnyOrder(found), employeesLoaded \in AnyOrder(staff) :
           LET dates == IF startDate = <<>> \/ endDate = <<>> THEN <<>>
                        ELSE DatesFrom(startDate[1], endDate[1])
               data ==
                 Flatten([d \in 1..Len(dates) |->
                   LET day == dayTemplates(loaded, dates[d])
                   IN  Flatten([k \in 1..Len(day) |->
                                  AssignmentsOf(availability, employeesLoaded,
                                                day[k], dates[d])])])
               createdShifts ==
                 [k \in 1..(failed - 1) |->
                    [id |-> AutoId(shifts, k),
                     employeeId |-> data[k].employeeId,
                     departmentId |-> data[k].departmentId,
                     organizationId |-> organizationId,
                     startTime |-> data[k].startTime,
                     endTime |-> data[k].endTime,
                     status |-> "SCHEDULED"]]
           IN  /\ failed \in 1..Len(data)
               /\ Cardinality(shifts) + failed - 1 <= MaxAutoRows
               /\ shifts' = shifts \cup Range(createdShifts)
               /\ resp' = TemplateResponse("autoScheduleShifts", 500,
                            organizationId, input,
                            [templates |-> loaded, employees |-> employeesLoaded],
                            <<>>)
  /\ user' = <<>>
  /\ UNCHANGED <<availability, employees, templates, pending,
               refreshTokens, refreshed, toasts>>

\* ------------------------------------------ requests suspended at an await
\* createShift up to its last await: the handler has validated, awaited
\* checkShiftConflicts and passed the 409 branches; prisma.shift.create is
\* still to run.  Other requests are handled in between.
createShiftCheck(employeeId, startTime, endTime, status, overrideConflicts) ==
  /\ user # <<>>
  /\ Len(pending) < MaxInFlight
  /\ LET organizationId == user[1].organizationId
         input == ShiftInput(employeeId, startTime, endTime, <<>>)
         validation == validateTenantResources(employees, organizationId,
                                               <<employeeId>>, <<>>)
     IN  IF ~validation.valid
         THEN /\ resp' = Forbidden("createShift", organizationId, input,
                                   overrideConflicts, validation.error)
              /\ UNCHANGED pending
         ELSE \E conflictResult \in checkShiftConflicts(shifts, availability,
                                      employees, input, organizationId) :
                IF Blocked(conflictResult, overrideConflicts)
                THEN /\ \E suggestions \in suggestAlternativeTimes(shifts,
                                             availability, input, organizationId) :
                          resp' = Response("createShift", 409, organizationId, input,
                                           overrideConflicts, <<conflictResult>>,
                                           <<suggestions>>)
                     /\ UNCHANGED pending
                ELSE /\ pending' = Append(pending,
                          [op |-> "createShift", organizationId |-> organizationId,
                           input |-> input, overrideConflicts |-> overrideConflicts,
                           data |-> [employeeId |-> <<employeeId>>,
                                     startTime |-> <<startTime>>,
                                     endTime |-> <<endTime>>,
                                     status |-> <<OrElse(status, "SCHEDULED")>>]])
                     /\ resp' = NoResponse
  /\ user' = <<>>
  /\ UNCHANGED <<shifts, availability, employees, templates,
               refreshTokens, refreshed, toasts>>

\* updateShift up to its last await; data holds the fields of the body,
\* <<>> for undefined.
updateShiftCheck(id, employeeId, startTime, endTime, status, overrideConflicts) ==
  /\ user # <<>>
  /\ Len(pending) < MaxInFlight
  /\ LET organizationId == user[1].organizationId
         found == {s \in shifts : s.id = id /\ s.organizationId = organizationId}
         existingShift == CHOOSE s \in found : TRUE
         input == ShiftInput(OrElse(employeeId, existingShift.employeeId),
                             OrElse(startTime, existingShift.startTime),
                             OrElse(endTime, existingShift.endTime),
                             <<id>>)
     IN  IF found = {}
         THEN /\ resp' = Response("updateShift", 404, organizationId, <<>>,
                                  overrideConflicts, <<>>, <<>>)
              /\ UNCHANGED pending
         ELSE IF ~validateTenantResources(employees, organizationId, employeeId,
                                         <<>>).valid
         THEN /\ resp' = Forbidden("updateShift", organizationId, <<>>,
                              overrideConflicts,
                              validateTenantResources(employees, organizationId,
                                employeeId, <<>>).error)
              /\ UNCHANGED pending
         ELSE \E conflictResult \in checkShiftConflicts(shifts, availability,
                                      employees, input, organizationId) :
                IF Blocked(conflictResult, overrideConflicts)
                THEN /\ \E suggestions \in suggestAlternativeTimes(shifts,
                                             availability, input, organizationId) :
                          resp' = Response("updateShift", 409, organizationId, input,
                                           overrideConflicts, <<conflictResult>>,
                                           <<suggestions>>)
                     /\ UNCHANGED pending
                ELSE /\ pending' = Append(pending,
                          [op |-> "updateShift", organizationId |-> organizationId,
                           input |-> input, overrideConflicts |-> overrideConflicts,
                           data |-> [employeeId |-> employeeId,
                                     startTime |-> startTime,
                                     endTime |-> endTime,
                                     status |-> status]])
                     /\ resp' = NoResponse
  /\ user' = <<>>
  /\ UNCHANGED <<shifts, availability, employees, templates,
               refreshTokens, refreshed, toasts>>

Without(array, k) == [i \in 1..(Len(array) - 1) |-> IF i < k THEN array[i] ELSE array[i + 1]]

\* The last await of the k-th suspended request resumes: prisma.shift.create
\* or prisma.shift.update({ where: { id } }) runs against the table as it is
\* now, and the request is answered.  An update of a row that is gone
\* rejects: 500.
shiftWrite(k) ==
  /\ k \in 1..Len(pending)
  /\ LET request == pending[k]
         data == request.data
         rows == {s \in shifts : s.id = request.input.shiftId[1]}
     IN  IF request.op = "createShift"
         THEN /\ Cardinality(shifts) < MaxShifts
              /\ shifts' = shifts \cup
                   {[id |-> NewId(shifts),
                     employeeId |-> data.employeeId[1],
                     departmentId |-> <<>>,
                     organizationId |-> request.organizationId,
                     startTime |-> data.startTime[1],
                     endTime |-> data.endTime[1],
                     status |-> data.status[1]]}
              /\ resp' = Response("createShift", 201, request.organizationId,
                                  request.input, request.overrideConflicts,
                                  <<>>, <<>>)
         ELSE IF rows = {}
         THEN /\ resp' = Response("updateShift", 500, request.organizationId,
                                  request.input, request.overrideConflicts,
                                  <<>>, <<>>)
              /\ UNCHANGED shifts
         ELSE /\ shifts' = {IF s \in rows
                            THEN [s EXCEPT !.employeeId = OrElse(data.employeeId, @),
                                           !.startTime = OrElse(data.startTime, @),
                                           !.endTime = OrElse(data.endTime, @),
                                           !.status = OrElse(data.status, @)]
                            ELSE s : s \in shifts}
              /\ resp' = Response("updateShift", 200, request.organizationId,
                                  request.input, request.overrideConflicts,
                                  <<>>, <<>>)
  /\ pending' = Without(pending, k)
  /\ UNCHANGED <<availability, employees, templates, user,
               refreshTokens, refreshed, toasts>>

\* ------------------------------------------------------------ refresh tokens
UserIds == {"user-1", "user-2"}
TokenValues == 1..MaxTokens

\* The answers of the auth routes: the refreshToken of the body and the one
\* answered, <<>> when there is none.
AuthResponse(op, status, token, refreshToken, message) ==
  [op |-> op, status |-> status, organizationId |-> <<>>, input |-> token,
   overrideConflicts |-> FALSE, result |-> <<>>, suggestions |-> <<>>,
   refreshToken |-> refreshToken, message |-> message]

\* crypto.randomBytes(64).toString('hex'): a value no row holds; the least
\* one stands for it.
NewToken(R) ==
  CHOOSE t \in TokenValues :
    /\ \A r \in R : r.token # t
    /\ \A u \in TokenValues : (\A r \in R : r.token # u) => t <= u

\* The table after generateRefreshToken(userId).  revoked stands for
\* revokedAt being set, expired for expiresAt < new Date().
generateRefreshToken(R, userId) ==
  R \cup {[token |-> NewToken(R), userId |-> userId,
           revoked |-> FALSE, expired |-> FALSE]}

\* prisma.refreshToken.updateMany({ where: { userId, revokedAt: null },
\* data: { revokedAt: new Date() } })
updateManyUnrevoked(R, userId) ==
  {IF r.userId = userId /\ ~r.revoked THEN [r EXCEPT !.revoked = TRUE] ELSE r : r \in R}

\* prisma.refreshToken.update({ where: { id: storedToken.id },
\* data: { revokedAt: new Date() } })
update(R, storedToken) ==
  {IF r.token = storedToken.token THEN [r EXCEPT !.revoked = TRUE] ELSE r : r \in R}

\* prisma.refreshToken.updateMany({ where: { userId: storedToken.userId },
\* data: { revokedAt: new Date() } })
updateManyOfUser(R, storedToken) ==
  {IF r.userId = storedToken.userId THEN [r EXCEPT !.revoked = TRUE] ELSE r : r \in R}

\* login: <<>> stands for an unknown email or a wrong password.
login(userId) ==
  /\ Cardinality(refreshTokens) < MaxTokens
  /\ IF userId = <<>>
     THEN /\ resp' = AuthResponse("login", 401, <<>>, <<>>, "credentials")
          /\ UNCHANGED refreshTokens
     ELSE /\ refreshTokens' = generateRefreshToken(refreshTokens, userId[1])
          /\ resp' = AuthResponse("login", 200, <<>>,
                                  <<NewToken(refreshTokens)>>, "")
  /\ UNCHANGED <<shifts, availability, employees, templates, pending, user,
                 refreshed, toasts>>

\* refreshToken up to its first write: findUnique has been awaited and the
\* three tests made; a request past them waits for its updateMany or its
\* update.
refreshTokenFind(token) ==
  LET found == {r \in refreshTokens : <<r.token>> = token}
      storedToken == CHOOSE r \in found : TRUE
      Suspend(next) ==
        /\ Len(pending) < MaxInFlight
        /\ pending' = Append(pending, [op |-> "refreshToken", next |-> next,
                                       storedToken |-> storedToken])
        /\ resp' = NoResponse
  IN  /\ IF token = <<>>
         THEN /\ resp' = AuthResponse("refreshToken", 400, token, <<>>, "required")
              /\ UNCHANGED pending
         ELSE IF found = {}
         THEN /\ resp' = AuthResponse("refreshToken", 401, token, <<>>, "invalid")
              /\ UNCHANGED pending
         ELSE IF storedToken.revoked
         THEN Suspend("updateMany")
         ELSE IF storedToken.expired
         THEN /\ resp' = AuthResponse("refreshToken", 401, token, <<>>, "expired")
              /\ UNCHANGED pending
         ELSE Suspend("update")
      /\ UNCHANGED <<shifts, availability, employees, templates, user,
                     refreshTokens, refreshed, toasts>>

\* The k-th suspended refreshToken request resumes at its next await: the
\* updateMany of the reuse branch and its 401, the update that revokes the
\* old token, or generateRefreshToken and the answer.
refreshTokenResume(k) ==
  /\ k \in 1..Len(pending)
  /\ pending[k].op = "refreshToken"
  /\ LET request == pending[k]
         storedToken == request.storedToken
     IN  CASE request.next = "updateMany" ->
                /\ refreshTokens' = updateManyOfUser(refreshTokens, storedToken)
                /\ resp' = AuthResponse("refreshToken", 401, <<storedToken.token>>,
                                        <<>>, "reuse")
                /\ pending' = Without(pending, k)
                /\ UNCHANGED refreshed
           [] request.next = "update" ->
                /\ refreshTokens' = update(refreshTokens, storedToken)
                /\ resp' = NoResponse
                /\ pending' = [pending EXCEPT ![k].next = "create"]
                /\ UNCHANGED refreshed
           [] request.next = "create" ->
                /\ Cardinality(refreshTokens) < MaxTokens
                /\ refreshTokens' = generateRefreshToken(refreshTokens,
                                                         storedToken.userId)
                /\ refreshed' = refreshed \cup
                     {<<storedToken.token, NewToken(refreshTokens)>>}
                /\ resp' = AuthResponse("refreshToken", 200, <<storedToken.token>>,
                                        <<NewToken(refreshTokens)>>, "")
                /\ pending' = Without(pending, k)
  /\ UNCHANGED <<shifts, availability, employees, templates, user, toasts>>

\* logout: revokes the token of the body if it is not revoked.
logout(token) ==
  /\ refreshTokens' = {IF <<r.token>> = token /\ ~r.revoked
                       THEN [r EXCEPT !.revoked = TRUE] ELSE r : r \in refreshTokens}
  /\ resp' = AuthResponse("logout", 200, token, <<>>, "")
  /\ UNCHANGED <<shifts, availability, employees, templates, pending, user,
                 refreshed, toasts>>

\* logoutAll of the user the access token names.
logoutAll(userId) ==
  /\ refreshTokens' = updateManyUnrevoked(refreshTokens, userId)
  /\ resp' = AuthResponse("logoutAll", 200, <<>>, <<>>, "")
  /\ UNCHANGED <<shifts, availability, employees, templates, pending, user,
                 refreshed, toasts>>

\* Time passes expiresAt of a row; no request is answered.
expires(token) ==
  /\ \E r \in refreshTokens : r.token = token /\ ~r.expired
  /\ refreshTokens' = {IF r.token = token THEN [r EXCEPT !.expired = TRUE] ELSE r :
                         r \in refreshTokens}
  /\ resp' = NoResponse
  /\ UNCHANGED <<shifts, availability, employees, templates, pending, user,
                 refreshed, toasts>>

\* --------------------------------------------------------- the toast store
\* input.duration ?? 5000
DefaultDuration == 5000

\* generateId(): `toast-${Date.now()}-${random}`, an id no toast and no
\* timer holds; the least one stands for it.
generateId(array, timers) ==
  CHOOSE i \in 1..MaxToasts :
    LET Free(j) == /\ \A k \in 1..Len(array) : array[k].id # j
                   /\ \A k \in 1..Len(timers) : timers[k].id # j
    IN  Free(i) /\ \A j \in 1..MaxToasts : Free(j) => i <= j

\* The durations of the inputs: undefined, 0 and three seconds.
Durations == Opt({0, 3000})

\* state.toasts.filter((t) => t.id !== id) that drops the last toast instead.
toastsPopped(array, id) == SubSeq(array, 1, Len(array) - 1)

\* state.toasts.filter((t) => t.id !== id)
toastsFilter(array, id) == filter(array, {t \in Range(array) : t.id # id})

\* addToast: the toast is appended and, when its duration is above 0, a
\* timer is set that will call removeToast(id).
addToast(duration) ==
  /\ \E i \in 1..MaxToasts :
       /\ \A k \in 1..Len(toasts) : toasts[k].id # i
       /\ \A k \in 1..Len(pending) : pending[k].id # i
  /\ LET id == generateId(toasts, pending)
         toast == [id |-> id, duration |-> OrElse(duration, DefaultDuration)]
     IN  /\ toasts' = Append(toasts, toast)
         /\ pending' = IF toast.duration # 0 /\ toast.duration > 0
                       THEN Append(pending, [op |-> "setTimeout", id |-> id,
                                             delay |-> toast.duration])
                       ELSE pending
  /\ UNCHANGED <<shifts, availability, employees, templates, user, resp,
                 refreshTokens, refreshed>>

removeToast(id) ==
  /\ toasts' = toastsFilter(toasts, id)
  /\ UNCHANGED <<shifts, availability, employees, templates, pending, user, resp,
                 refreshTokens, refreshed>>

clearAll ==
  /\ toasts' = <<>>
  /\ UNCHANGED <<shifts, availability, employees, templates, pending, user, resp,
                 refreshTokens, refreshed>>

\* The k-th timer fires: get().removeToast(id).  Timers of different delays
\* set at different times fire in any order.
timerFires(k) ==
  /\ k \in 1..Len(pending)
  /\ pending[k].op = "setTimeout"
  /\ toasts' = toastsFilter(toasts, pending[k].id)
  /\ pending' = Without(pending, k)
  /\ UNCHANGED <<shifts, availability, employees, templates, user, resp,
                 refreshTokens, refreshed>>

\* ------------------------------------------- the evaluators of Promise.all
\* The promises checkShiftConflicts passes to Promise.all, by position.
Evaluators == <<"checkOverlappingShifts", "checkAvailability", "checkWeeklyHoursLimit">>

\* What one of them may resolve with on the tables as they are.
Outcomes(evaluator, input, organizationId) ==
  CASE evaluator = "checkOverlappingShifts" ->
         checkOverlappingShifts(shifts, input, organizationId)
    [] evaluator = "checkAvailability" -> checkAvailability(availability, input)
    [] evaluator = "checkWeeklyHoursLimit" ->
         checkWeeklyHoursLimit(shifts, employees, input)

\* One of the three promises of the suspended check resolves.
evaluatorSettles(evaluator) ==
  /\ pending # <<>>
  /\ user = <<>>
  /\ \A k \in 1..Len(pending[1].settled) : pending[1].settled[k].evaluator # evaluator
  /\ \E value \in Outcomes(evaluator, pending[1].input, pending[1].organizationId) :
       pending' = <<[pending[1] EXCEPT
                       !.settled = Append(@, [evaluator |-> evaluator,
                                              value |-> value])]>>
  /\ UNCHANGED <<shifts, availability, employees, templates, user, resp,
               refreshTokens, refreshed, toasts>>

\* The array in the order the promises resolved.
PromiseAllAsSettled(settled) == [k \in 1..Len(settled) |-> settled[k].value]

\* The array Promise.all resolves with: the values by position of the
\* promise, whatever the order they resolved in.
PromiseAll(settled) ==
  [k \in 1..Len(Evaluators) |->
     (CHOOSE e \in Range(settled) : e.evaluator = Evaluators[k]).value]

\* The rest of checkConflicts once Promise.all has resolved; the response
\* also tells the order the promises resolved in.
checkConflictsMerge ==
  /\ pending # <<>>
  /\ user = <<>>
  /\ Len(pending[1].settled) = Len(Evaluators)
  /\ LET organizationId == pending[1].organizationId
         input == pending[1].input
         results == PromiseAll(pending[1].settled)
         conflictResult == Aggregate(results[1], results[2], results[3])
         Answer(suggestions) ==
           [op |-> "checkConflicts", status |-> 200,
            organizationId |-> organizationId, input |-> input,
            overrideConflicts |-> FALSE, result |-> <<conflictResult>>,
            suggestions |-> suggestions,
            settled |-> [k \in 1..Len(Evaluators) |->
                           pending[1].settled[k].evaluator]]
     IN  IF conflictResult.hasConflicts
         THEN \E suggestions \in suggestAlternativeTimes(shifts, availability,
                                   input, organizationId) :
                resp' = Answer(<<suggestions>>)
         ELSE resp' = Answer(<<>>)
  /\ pending' = <<>>
  /\ UNCHANGED <<shifts, availability, employees, templates, user,
               refreshTokens, refreshed, toasts>>

\* ------------------------------------------------------- specifications
Next ==
  \/ \E token \in Tokens : authMiddleware(token)
  \/ \E e \in EmployeeIds, i \in Intervals, status \in Opt(Statuses),
        o \in BOOLEAN : createShift(e, i[1], i[2], <<>>, status, o)
  \/ \E id \in ShiftIds, st, en \in Opt(Instants) :
        /\ \A s \in shifts : s.id = id =>
              <<OrElse(st, s.startTime), OrElse(en, s.endTime)>> \in Intervals
        /\ \E e \in Opt(EmployeeIds), status \in Opt(Statuses), o \in BOOLEAN :
              updateShift(id, e, st, en, <<>>, status, o)
  \/ \E id \in ShiftIds : deleteShift(id)
  \/ \E e \in EmployeeIds, i \in Intervals, id \in Opt(ShiftIds) :
        checkConflicts(e, i[1], i[2], id)

Spec == Init /\ [][Next]_vars

\* Requests with startTime < endTime only, and no other route than the three
\* that write a single shift.
NextManual ==
  \/ \E token \in Tokens : authMiddleware(token)
  \/ \E e \in EmployeeIds, i \in Intervals, status \in Opt(Statuses),
        o \in BOOLEAN :
        /\ i[1] < i[2]
        /\ createShift(e, i[1], i[2], <<>>, status, o)
  \/ \E id \in ShiftIds, st, en \in Opt(Instants) :
        /\ \A s \in shifts : s.id = id =>
              OrElse(st, s.startTime) < OrElse(en, s.endTime)
        /\ \E e \in Opt(EmployeeIds), status \in Opt(Statuses), o \in BOOLEAN :
              updateShift(id, e, st, en, <<>>, status, o)
  \/ \E id \in ShiftIds : deleteShift(id)

SpecManual == Init /\ [][NextManual]_vars

\* The shift routes with reads that fail and with an employee deleted while
\* a check is suspended.  Requests carry one of two intervals.
FaultIntervals == {<<2 * SlotMs, 3 * SlotMs>>, <<3 * SlotMs, 4 * SlotMs>>}

NextFaults ==
  \/ \E token \in Tokens : authMiddleware(token)
  \/ \E e \in EmployeeIds, i \in FaultIntervals, o \in BOOLEAN :
        createShift(e, i[1], i[2], <<>>, <<>>, o)
  \/ \E failed \in Opt(Reads), e \in EmployeeIds, i \in FaultIntervals,
        o \in BOOLEAN :
        createShiftRejected(failed, e, i[1], i[2], o)
  \/ \E failed \in Opt(Reads), id \in ShiftIds, i \in FaultIntervals,
        o \in BOOLEAN :
        updateShiftRejected(failed, id, <<>>, <<i[1]>>, <<i[2]>>, o)
  \/ \E e \in EmployeeIds, i \in FaultIntervals :
        checkConflictsValidate(e, i[1], i[2], <<>>)
  \/ \E failed \in Opt(Reads) : checkConflictsEvaluate(failed)
  \/ \E id \in EmployeeIds, cascade \in BOOLEAN : deleteEmployee(id, cascade)

SpecFaults == Init /\ [][NextFaults]_vars

\* The conflict engine behind POST /shifts/check-conflicts, on stores that
\* hold the rows the write paths leave behind.
InitEngine ==
  /\ shifts \in EngineStores
  /\ availability \in EngineAvailabilityTables
  /\ employees \in EngineEmployeeTables
  /\ templates = {}
  /\ pending = <<>>
  /\ user = <<>>
  /\ resp = NoResponse
  /\ refreshTokens = {}
  /\ refreshed = {}
  /\ toasts = <<>>

NextEngine ==
  \/ \E token \in Tokens : authMiddleware(token)
  \/ \E i \in EngineCandidates, id \in Opt(1..MaxEngineRows) :
        checkConflicts("emp-1", i[1], i[2], id)

SpecEngine == InitEngine /\ [][NextEngine]_vars

\* The template routes and the auto-schedule route.
NextTemplates ==
  \/ \E token \in Tokens : authMiddleware(token)
  \/ \E body \in TemplateBodies :
        createTemplate(body[1], body[2], body[3], <<>>, body[4])
  \/ \E ids \in SUBSET TemplateIds, st, en \in Opt(TemplateDates) :
        applyTemplates(ids, st, en)
  \/ \E ids \in SUBSET TemplateIds, st, en \in Opt(TemplateDates) :
        autoScheduleShifts(ids, st, en)

SpecTemplates == Init /\ [][NextTemplates]_vars

\* The routes that write the shiftTemplate table.
NextTemplateStore ==
  \/ \E token \in Tokens : authMiddleware(token)
  \/ \E body \in TemplateBodies :
        createTemplate(body[1], body[2], body[3], <<>>, body[4])
  \/ \E id \in TemplateIds, body \in TemplateUpdates :
        updateTemplate(id, body[1], body[2], body[3], <<>>, body[4])
  \/ \E id \in TemplateIds : deleteTemplate(id)

SpecTemplateStore == Init /\ [][NextTemplateStore]_vars

\* The routes that write shifts, with an employee and a department in each
\* organization.
TenantEmployeeTables ==
  { { Employee("emp-1", "org-1", <<>>), Employee("emp-2", "org-2", <<>>) } }

InitTenant ==
  /\ shifts = {}
  /\ availability \in AvailabilityTables
  /\ employees \in TenantEmployeeTables
  /\ templates = {}
  /\ pending = <<>>
  /\ user = <<>>
  /\ resp = NoResponse
  /\ refreshTokens = {}
  /\ refreshed = {}
  /\ toasts = <<>>

\* A Sunday template.
TenantBodies == { <<0, T(9, 0), T(17, 0), <<>> >> }

NextTenant ==
  \/ \E token \in Tokens : authMiddleware(token)
  \/ \E e \in EmployeeIds, i \in FaultIntervals, d \in Opt(DepartmentIds) :
        createShift(e, i[1], i[2], d, <<>>, TRUE)
  \/ \E id \in ShiftIds, e \in Opt(EmployeeIds), d \in Opt(DepartmentIds) :
        updateShift(id, e, <<>>, <<>>, d, <<>>, TRUE)
  \/ \E e \in EmployeeIds, i \in FaultIntervals : checkConflicts(e, i[1], i[2], <<>>)
  \/ \E body \in TenantBodies, d \in Opt(DepartmentIds) :
        createTemplate(body[1], body[2], body[3], d, body[4])
  \/ \E ids \in SUBSET TemplateIds :
        autoScheduleShifts(ids, <<At(0, 0, 0)>>, <<At(0, 0, 0)>>)

SpecTenant == InitTenant /\ [][NextTenant]_vars

\* POST /shifts/check-conflicts with the three evaluators resolving one by
\* one, in any order.
NextAggregator ==
  \/ \E token \in Tokens : authMiddleware(token)
  \/ \E i \in EngineCandidates : checkConflictsValidate("emp-1", i[1], i[2], <<>>)
  \/ \E k \in 1..Len(Evaluators) : evaluatorSettles(Evaluators[k])
  \/ checkConflictsMerge

SpecAggregator == InitEngine /\ [][NextAggregator]_vars

\* getWeekBounds applied to a date: the first and the last millisecond and
\* two instants in between of each day of the two weeks from Monday, day 8.
WeekDates ==
  { d * DayMs + t : d \in 8..21, t \in {0, 9 * HourMs + 30 * MinuteMs,
                                        12 * HourMs, DayMs - 1} }

InitWeek ==
  /\ shifts = {}
  /\ availability = {}
  /\ employees = {}
  /\ templates = {}
  /\ pending \in {<<[date |-> d]>> : d \in WeekDates}
  /\ user = <<>>
  /\ resp = NoResponse
  /\ refreshTokens = {}
  /\ refreshed = {}
  /\ toasts = <<>>

weekBounds ==
  /\ pending # <<>>
  /\ resp' = [op |-> "getWeekBounds", status |-> 0, date |-> pending[1].date,
              bounds |-> getWeekBounds(pending[1].date)]
  /\ pending' = <<>>
  /\ UNCHANGED <<shifts, availability, employees, templates, user,
               refreshTokens, refreshed, toasts>>

SpecWeek == InitWeek /\ [][weekBounds]_vars

\* Shift requests whose check and write are separate steps, up to MaxInFlight
\* of them between the two.
ConcurrentIntervals ==
  {<<2 * SlotMs, 4 * SlotMs>>, <<3 * SlotMs, 5 * SlotMs>>, <<4 * SlotMs, 5 * SlotMs>>}

NextConcurrent ==
  \/ \E token \in Tokens : authMiddleware(token)
  \/ \E e \in EmployeeIds, i \in ConcurrentIntervals, o \in BOOLEAN :
        createShiftCheck(e, i[1], i[2], <<>>, o)
  \/ \E id \in ShiftIds, i \in ConcurrentIntervals, status \in Opt({"CANCELLED"}),
        o \in BOOLEAN :
        updateShiftCheck(id, <<>>, <<i[1]>>, <<i[2]>>, status, o)
  \/ \E k \in 1..MaxInFlight : shiftWrite(k)

SpecConcurrent == Init /\ [][NextConcurrent]_vars

\* The auto-schedule route with shift writes that may fail, on Sunday
\* templates for up to three employees.
AutoFaultBodies ==
  { <<0, T(9, 0), T(17, 0), <<>> >>,
    <<0, T(12, 0), T(18, 0), <<3>> >> }

NextAutoFaults ==
  \/ \E token \in Tokens : authMiddleware(token)
  \/ \E body \in AutoFaultBodies :
        createTemplate(body[1], body[2], body[3], <<>>, body[4])
  \/ \E ids \in SUBSET TemplateIds, st, en \in Opt(TemplateDates) :
        autoScheduleShifts(ids, st, en)
  \/ \E failed \in 1..MaxAutoRows, ids \in SUBSET TemplateIds,
        st, en \in Opt(TemplateDates) :
        autoScheduleShiftsRejected(failed, ids, st, en)

SpecAutoFaults == Init /\ [][NextAutoFaults]_vars

\* The auth routes that read or write the refreshToken table, with up to
\* MaxInFlight refresh requests between two of their awaits.
NextAuth ==
  \/ \E userId \in Opt(UserIds) : login(userId)
  \/ \E token \in Opt(TokenValues) : refreshTokenFind(token)
  \/ \E k \in 1..MaxInFlight : refreshTokenResume(k)
  \/ \E token \in Opt(TokenValues) : logout(token)
  \/ \E userId \in UserIds : logoutAll(userId)
  \/ \E token \in TokenValues : expires(token)

SpecAuth == Init /\ [][NextAuth]_vars

\* The toast store and its timers.
NextToasts ==
  \/ \E duration \in Durations : addToast(duration)
  \/ \E id \in 1..MaxToasts : removeToast(id)
  \/ clearAll
  \/ \E k \in 1..MaxToasts : timerFires(k)

SpecToasts == Init /\ [][NextToasts]_vars

\* ------------------------------------------------------------- properties
\* Two intervals share more than an end point.
Overlaps(s, input) ==
  s.startTime < input.endTime /\ input.startTime < s.endTime

\* The rows a conflict check of input is about: the employee's rows in the
\* organization that are not cancelled and are not the excluded one.
Considered(S, input, organizationId) ==
  {s \in S : /\ s.employeeId = input.employeeId
             /\ s.organizationId = organizationId
             /\ s.status # "CANCELLED"
             /\ input.shiftId # <<s.id>>}

\* The last response carries the result of checkShiftConflicts.
HasResult == resp.result # <<>>

\* ... and the tables are still the ones the check read.
Checked == HasResult /\ (resp.op = "checkConflicts" \/ resp.status = 409)

OfType(result, type) ==
  {i \in 1..Len(result.conflicts) : result.conflicts[i].type = type}

HasError(result) ==
  \E i \in 1..Len(result.conflicts) : result.conflicts[i].severity = "error"

\* C1: a candidate with startTime < endTime that overlaps a considered row
\* gets exactly one OVERLAPPING_SHIFT conflict, of severity ERROR, and
\* canOverride = false, whatever else is reported.
OverlapIsOneError ==
  ( /\ Checked
    /\ resp.input.startTime < resp.input.endTime
    /\ \E s \in Considered(shifts, resp.input, resp.organizationId) :
         Overlaps(s, resp.input) )
  => LET r == resp.result[1]
         found == OfType(r, "OVERLAPPING_SHIFT")
     IN  /\ Cardinality(found) = 1
         /\ \A i \in found : r.conflicts[i].severity = "error"
         /\ r.canOverride = FALSE

\* C1's case: two rows overlap the candidate, and the availability and the
\* weekly hours warnings are reported with the overlap.
OverlapIsOneErrorWitness ==
  /\ Checked
  /\ resp.input.startTime < resp.input.endTime
  /\ Cardinality({s \in Considered(shifts, resp.input, resp.organizationId) :
                    Overlaps(s, resp.input)}) = 2
  /\ Len(resp.result[1].conflicts) = 3

\* C2: no two rows of one employee in one organization that are not cancelled
\* overlap.
NoOverlapInStore ==
  \A s1, s2 \in shifts :
    ( /\ s1.id # s2.id
      /\ s1.employeeId = s2.employeeId
      /\ s1.organizationId = s2.organizationId
      /\ s1.status # "CANCELLED"
      /\ s2.status # "CANCELLED" )
    => ~Overlaps(s1, s2)

\* C2's case: an update has been written and left the employee with two
\* rows that are not cancelled (they touch).
NoOverlapInStoreWitness ==
  /\ resp.op = "updateShift"
  /\ resp.status = 200
  /\ \E s1, s2 \in shifts :
       /\ s1.id # s2.id
       /\ s1.employeeId = s2.employeeId
       /\ s1.status # "CANCELLED"
       /\ s2.status # "CANCELLED"
       /\ s1.endTime = s2.startTime

\* A handler of the shift routes has answered in this step.
Handled == user # <<>> /\ user' = <<>>

WeekOf(date) == ((date \div DayMs) + 6) \div 7

\* The hours (scaled by HourMs) the employee's rows of the candidate's week
\* add up to, the candidate included.
WeeklyTotal(S, input) ==
  LET RECURSIVE Total(_)
      Total(rows) ==
        IF rows = {} THEN 0
        ELSE LET s == CHOOSE r \in rows : TRUE
             IN  (s.endTime - s.startTime) + Total(rows \ {s})
  IN  Total({s \in S : /\ s.employeeId = input.employeeId
                       /\ s.status # "CANCELLED"
                       /\ input.shiftId # <<s.id>>
                       /\ WeekOf(s.startTime) = WeekOf(input.startTime)
                       /\ WeekOf(s.endTime) = WeekOf(input.startTime)})
        + (input.endTime - input.startTime)

\* The candidate lies inside a window the employee declared for its day: both
\* its ends are instants of the window.
InsideWindow(A, input) ==
  \E a \in A :
    LET midnight == setHours(input.startTime, 0, 0, 0, 0)
        from == midnight + timeStringToMinutes(a.startTime) * MinuteMs
        to == midnight + timeStringToMinutes(a.endTime) * MinuteMs
    IN  /\ a.employeeId = input.employeeId
        /\ a.dayOfWeek = getDay(input.startTime)
        /\ from <= input.startTime /\ input.startTime <= to
        /\ from <= input.endTime /\ input.endTime <= to

UnderLimit(S, E, input) ==
  \A e \in E : e.id = input.employeeId =>
    \/ e.weeklyHoursLimit = <<>>
    \/ WeeklyTotal(S, input) <= e.weeklyHoursLimit[1] * HourMs

\* The candidate of the last check is clean: no overlap, inside the window,
\* at or below the limit.
Clean ==
  /\ \A s \in Considered(shifts, resp.input, resp.organizationId) :
       ~Overlaps(s, resp.input)
  /\ InsideWindow(availability, resp.input)
  /\ UnderLimit(shifts, employees, resp.input)

NoConflicts == [hasConflicts |-> FALSE, conflicts |-> <<>>, canOverride |-> TRUE]

\* C4: a clean candidate gets hasConflicts = false, conflicts = [] and
\* canOverride = true.
CleanHasNoConflicts ==
  (Checked /\ Clean) => resp.result[1] = NoConflicts

\* The predicate of the specification's overlap detector.
SpecOverlap(s, input) ==
  \/ input.startTime <= s.startTime /\ s.startTime < input.endTime
  \/ input.startTime < s.endTime /\ s.endTime <= input.endTime
  \/ s.startTime <= input.startTime /\ s.endTime >= input.endTime

\* C5: an OVERLAPPING_SHIFT conflict is reported if and only if a considered
\* row satisfies the specification's predicate, and the row reported is such
\* a row.
ReportsSpecOverlap ==
  Checked =>
    LET r == resp.result[1]
        found == OfType(r, "OVERLAPPING_SHIFT")
        hits == {s \in Considered(shifts, resp.input, resp.organizationId) :
                   SpecOverlap(s, resp.input)}
    IN  /\ found # {} <=> hits # {}
        /\ \A i \in found :
             \E s \in hits : s.id = r.conflicts[i].details.conflictingShiftId

\* Every interval involved in the last check is well-formed.
WellFormed ==
  /\ resp.input.startTime < resp.input.endTime
  /\ \A s \in shifts : s.startTime < s.endTime

\* C4 where every interval is well-formed.
CleanHasNoConflictsWellFormed ==
  (Checked /\ WellFormed /\ Clean) => resp.result[1] = NoConflicts

\* C5 where every interval is well-formed: the specification's predicate is
\* then strict intersection, and rows that only touch are no conflict.
ReportsSpecOverlapWellFormed ==
  (Checked /\ WellFormed) =>
    LET r == resp.result[1]
        found == OfType(r, "OVERLAPPING_SHIFT")
        rows == Considered(shifts, resp.input, resp.organizationId)
        hits == {s \in rows : SpecOverlap(s, resp.input)}
    IN  /\ found # {} <=> hits # {}
        /\ hits = {s \in rows : Overlaps(s, resp.input)}
        /\ \A i \in found :
             \E s \in hits : s.id = r.conflicts[i].details.conflictingShiftId

\* The rows that are not cancelled.
Active(S) == {s \in S : s.status # "CANCELLED"}

\* C6: the cancelled rows have no part in what checkShiftConflicts and
\* suggestAlternativeTimes return: the answers on the tables are the answers
\* on the tables without the cancelled rows.
CancelledNeverCounts ==
  Checked =>
    /\ checkShiftConflicts(shifts, availability, employees, resp.input,
                           resp.organizationId)
         = checkShiftConflicts(Active(shifts), availability, employees,
                               resp.input, resp.organizationId)
    /\ suggestAlternativeTimes(shifts, availability, resp.input,
                               resp.organizationId)
         = suggestAlternativeTimes(Active(shifts), availability, resp.input,
                                   resp.organizationId)
    /\ resp.result[1] \in checkShiftConflicts(Active(shifts), availability,
                            employees, resp.input, resp.organizationId)
    /\ resp.suggestions # <<>> =>
         resp.suggestions[1] \in suggestAlternativeTimes(Active(shifts),
                                   availability, resp.input, resp.organizationId)

\* C6's case: a cancelled row of the employee overlaps the candidate, lies in
\* its week and on its day, and the check reports nothing.
CancelledNeverCountsWitness ==
  /\ Checked
  /\ resp.result[1] = NoConflicts
  /\ \E s \in shifts :
       /\ s.status = "CANCELLED"
       /\ s.employeeId = resp.input.employeeId
       /\ s.startTime < s.endTime
       /\ Overlaps(s, resp.input)
       /\ WeekOf(s.endTime) = WeekOf(resp.input.startTime)

\* C7: a check that excludes an existing row answers as if the row were not
\* in the table: the row is never the reported overlap, its hours are not in
\* currentHours or totalHours, and every other row counts as before.
ExcludedRowIsAbsent ==
  (Checked /\ \E s \in shifts : resp.input.shiftId = <<s.id>>) =>
    LET r == resp.result[1]
        others == {s \in shifts : resp.input.shiftId # <<s.id>>}
        plain == [resp.input EXCEPT !.shiftId = <<>>]
    IN  /\ r \in checkShiftConflicts(others, availability, employees, plain,
                                     resp.organizationId)
        /\ checkShiftConflicts(shifts, availability, employees, resp.input,
                               resp.organizationId)
             = checkShiftConflicts(others, availability, employees, plain,
                                   resp.organizationId)
        /\ \A i \in OfType(r, "OVERLAPPING_SHIFT") :
             <<r.conflicts[i].details.conflictingShiftId>> # resp.input.shiftId

\* C7's case: the excluded row and another row of the employee both overlap
\* the candidate, and the other one is reported.
ExcludedRowIsAbsentWitness ==
  /\ Checked
  /\ OfType(resp.result[1], "OVERLAPPING_SHIFT") # {}
  /\ \E s \in shifts :
       /\ resp.input.shiftId = <<s.id>>
       /\ s.employeeId = resp.input.employeeId
       /\ s.status # "CANCELLED"
       /\ s.startTime < s.endTime
       /\ Overlaps(s, resp.input)

\* C8: hasConflicts is true exactly when conflicts is not empty, canOverride
\* is false exactly when a conflict has severity ERROR, which is exactly when
\* an OVERLAPPING_SHIFT conflict is listed; the other two types are WARNING.
VerdictMatchesConflicts ==
  HasResult =>
    LET r == resp.result[1]
    IN  /\ r.hasConflicts <=> Len(r.conflicts) > 0
        /\ ~r.canOverride <=> HasError(r)
        /\ HasError(r) <=> OfType(r, "OVERLAPPING_SHIFT") # {}
        /\ \A i \in 1..Len(r.conflicts) :
             r.conflicts[i].severity =
               IF r.conflicts[i].type = "OVERLAPPING_SHIFT" THEN "error"
               ELSE "warning"

\* C8's case: warnings only, so conflicts are reported and may be overridden.
VerdictMatchesConflictsWitness ==
  /\ HasResult
  /\ Len(resp.result[1].conflicts) = 2
  /\ ~HasError(resp.result[1])
  /\ resp.result[1].canOverride

\* The availability rows of the candidate's employee for the day of the week
\* its startTime falls on.
WindowsOfDay(A, input) ==
  {a \in A : /\ a.employeeId = input.employeeId
             /\ a.dayOfWeek = (input.startTime \div DayMs) % 7}

\* C9: with no availability row for the candidate's day the result lists a
\* WARNING of type OUTSIDE_AVAILABILITY whose details say availabilitySet =
\* false.
MissingWindowIsWarned ==
  (HasResult /\ WindowsOfDay(availability, resp.input) = {}) =>
    LET r == resp.result[1]
    IN  \E i \in OfType(r, "OUTSIDE_AVAILABILITY") :
          /\ r.conflicts[i].severity = "warning"
          /\ "availabilitySet" \in DOMAIN r.conflicts[i].details
          /\ r.conflicts[i].details.availabilitySet = FALSE

\* C9's case: a check for an employee with no row for the candidate's day and
\* nothing else to report.
MissingWindowIsWarnedWitness ==
  /\ HasResult
  /\ resp.op = "checkConflicts"
  /\ WindowsOfDay(availability, resp.input) = {}
  /\ Len(resp.result[1].conflicts) = 1

MinuteOfDay(date) == (date % DayMs) \div MinuteMs

\* C10: with a row for the candidate's day, an OUTSIDE_AVAILABILITY WARNING
\* carrying both boundaries and no availabilitySet is listed if and only if
\* the candidate starts before the window's start minute or ends after its
\* end minute.
WindowViolationIffOutside ==
  HasResult =>
    \A a \in WindowsOfDay(availability, resp.input) :
      LET r == resp.result[1]
          found == OfType(r, "OUTSIDE_AVAILABILITY")
          outside ==
            \/ MinuteOfDay(resp.input.startTime) < timeStringToMinutes(a.startTime)
            \/ MinuteOfDay(resp.input.endTime) > timeStringToMinutes(a.endTime)
      IN  /\ found # {} <=> outside
          /\ \A i \in found :
               /\ r.conflicts[i].severity = "warning"
               /\ DOMAIN r.conflicts[i].details =
                    {"dayOfWeek", "availabilityStart", "availabilityEnd",
                     "shiftStart", "shiftEnd"}
               /\ r.conflicts[i].details.availabilityStart = a.startTime
               /\ r.conflicts[i].details.availabilityEnd = a.endTime

\* C10's case: the candidate starts and ends exactly on the window's
\* boundaries and no availability conflict is listed.
WindowViolationIffOutsideWitness ==
  /\ HasResult
  /\ OfType(resp.result[1], "OUTSIDE_AVAILABILITY") = {}
  /\ \E a \in WindowsOfDay(availability, resp.input) :
       /\ MinuteOfDay(resp.input.startTime) = timeStringToMinutes(a.startTime)
       /\ MinuteOfDay(resp.input.endTime) = timeStringToMinutes(a.endTime)

\* The WEEKLY_HOURS_EXCEEDED conflicts of a result.
HoursConflicts(result) == OfType(result, "WEEKLY_HOURS_EXCEEDED")

\* C11: with no weeklyHoursLimit the check lists no WEEKLY_HOURS_EXCEEDED
\* conflict; with a limit L >= 0 it lists one, a warning, if and only if the
\* candidate's hours plus the hours of the employee's other rows of the
\* candidate's week that are not cancelled exceed L.
LimitDecidesWarning ==
  Checked =>
    \A e \in employees : e.id = resp.input.employeeId =>
      LET r == resp.result[1]
          found == HoursConflicts(r)
      IN  IF e.weeklyHoursLimit = <<>> THEN found = {}
          ELSE /\ found # {} <=>
                    WeeklyTotal(shifts, resp.input) > e.weeklyHoursLimit[1] * HourMs
               /\ \A i \in found : r.conflicts[i].severity = "warning"

\* C11 for limits of at least one hour and weeks whose rows and candidate
\* last whole hours.
LimitDecidesWarningWholeHours ==
  ( /\ Checked
    /\ \A s \in shifts : (s.endTime - s.startTime) % HourMs = 0
    /\ (resp.input.endTime - resp.input.startTime) % HourMs = 0 ) =>
    \A e \in employees : e.id = resp.input.employeeId =>
      LET r == resp.result[1]
          found == HoursConflicts(r)
      IN  IF e.weeklyHoursLimit \in {<<>>, <<0>>} THEN found = {}
          ELSE found # {} <=>
                 WeeklyTotal(shifts, resp.input) > e.weeklyHoursLimit[1] * HourMs

\* C12: a total equal to the limit is no conflict; a total above it is a
\* WARNING whose totalHours is currentHours + newShiftHours, whose
\* currentHours is the sum without the candidate and whose exceededBy is
\* totalHours - weeklyLimit, above 0.
StrictComparison ==
  Checked =>
    \A e \in employees :
      (e.id = resp.input.employeeId /\ e.weeklyHoursLimit # <<>>) =>
        LET r == resp.result[1]
            found == HoursConflicts(r)
            limit == e.weeklyHoursLimit[1] * HourMs
            total == WeeklyTotal(shifts, resp.input)
            week == {s \in shifts :
                       WeekWhere(s, resp.input, getWeekBounds(resp.input.startTime))}
        IN  /\ total = limit => found = {}
            /\ total > limit => found # {}
            /\ \A i \in found :
                 LET d == r.conflicts[i].details
                 IN  /\ r.conflicts[i].severity = "warning"
                     /\ d.weeklyLimit = ToNumber(e.weeklyHoursLimit[1])
                     /\ d.newShiftHours = calculateShiftHours(resp.input.startTime,
                                                              resp.input.endTime)
                     /\ d.currentHours \in {SumHours(o) : o \in AnyOrder(week)}
                     /\ d.totalHours = Plus(d.currentHours, d.newShiftHours)
                     /\ d.exceededBy = Minus(d.totalHours, d.weeklyLimit)
                     /\ Greater(d.exceededBy, ToNumber(0))

\* C12 for limits of at least one hour: only the comparison at the limit.
NoConflictAtTheLimit ==
  Checked =>
    \A e \in employees :
      ( /\ e.id = resp.input.employeeId
        /\ e.weeklyHoursLimit \notin {<<>>, <<0>>}
        /\ WeeklyTotal(shifts, resp.input) = e.weeklyHoursLimit[1] * HourMs ) =>
        HoursConflicts(resp.result[1]) = {}

\* C13: a result of checkShiftConflicts never rests on a read that failed
\* or found its record gone: a result without a WEEKLY_HOURS_EXCEEDED
\* conflict was computed with the employee's row at hand, a rejected check
\* is answered with an error that carries no result, and that request
\* writes nothing.
FailedReadNeverPasses ==
  [][ /\ (resp'.result # <<>> /\ HoursConflicts(resp'.result[1]) = {}) =>
           \E e \in employees' : e.id = resp'.input.employeeId
      /\ resp'.status = 500 => resp'.result = <<>> /\ shifts' = shifts ]_vars

\* C13 for reads that reject only: a rejected check is answered 500 with no
\* result and the store is left as it was.
RejectedCheckWritesNothing ==
  [][ (resp'.status = 500 /\ resp'.op # "deleteEmployee") =>
        resp'.result = <<>> /\ shifts' = shifts ]_vars

\* ------------------------------------------------ suggestAlternativeTimes
\* The last response carries the list suggestAlternativeTimes returned.
Suggested == resp.op = "checkConflicts" /\ resp.suggestions # <<>>

\* The employee's rows in the organization that are not cancelled.
ActiveRowsOf(S, input, organizationId) ==
  {s \in S : /\ s.employeeId = input.employeeId
             /\ s.organizationId = organizationId
             /\ s.status # "CANCELLED"}

\* The availability windows of the employee for the candidate's day, as
\* instants of that day.
WindowsOn(A, input) ==
  { [from |-> (input.startTime \div DayMs) * DayMs
                + timeStringToMinutes(a.startTime) * MinuteMs,
     to |-> (input.startTime \div DayMs) * DayMs
              + timeStringToMinutes(a.endTime) * MinuteMs] :
      a \in WindowsOfDay(A, input) }

\* C14: every slot suggestAlternativeTimes returns is disjoint from every
\* non-cancelled shift the employee has in the organization, whatever rows
\* the store holds (rows reaching into another day, rows ending at midnight,
\* rows overlapping each other).
SuggestionsAvoidShifts ==
  Suggested =>
    \A k \in 1..Len(resp.suggestions[1]) :
      \A s \in ActiveRowsOf(shifts, resp.input, resp.organizationId) :
        ~Overlaps(s, resp.suggestions[1][k])

\* The rows start and end on the candidate's day and are pairwise disjoint.
RowsOfOneDayDisjoint(S, input, organizationId) ==
  LET rows == ActiveRowsOf(S, input, organizationId)
  IN  /\ \A s \in rows : DayWhere(s, input, organizationId)
      /\ \A s, t \in rows : s # t => ~Overlaps(s, t)

\* C14, restricted: on such stores every returned slot is disjoint from every
\* row.
SuggestionsAvoidShiftsOfTheDay ==
  (Suggested /\ RowsOfOneDayDisjoint(shifts, resp.input, resp.organizationId))
    => \A k \in 1..Len(resp.suggestions[1]) :
         \A s \in ActiveRowsOf(shifts, resp.input, resp.organizationId) :
           ~Overlaps(s, resp.suggestions[1][k])

\* C15: every slot suggestAlternativeTimes returns lies inside the
\* employee's availability window of the candidate's day, and without a
\* window for that day the list is empty.
SuggestionsInsideWindow ==
  Suggested =>
    LET windows == WindowsOn(availability, resp.input)
    IN  /\ windows = {} => resp.suggestions[1] = <<>>
        /\ \A k \in 1..Len(resp.suggestions[1]) :
             \E w \in windows :
               /\ resp.suggestions[1][k].startTime >= w.from
               /\ resp.suggestions[1][k].endTime <= w.to

\* C15, the part about a missing window: no window, no suggestion.
NoWindowNoSuggestion ==
  (Suggested /\ WindowsOn(availability, resp.input) = {})
    => resp.suggestions[1] = <<>>

\* The rows suggestAlternativeTimes scans: the employee's non-cancelled rows
\* of the candidate's day.
RowsOfTheDay(S, input, organizationId) ==
  {s \in S : DayWhere(s, input, organizationId)}

\* The slots in discovery order for one chronological listing of the rows:
\* position 1 is the start of the window, position k + 1 the end of row k;
\* a position yields a slot when the requested duration fits before whatever
\* comes next (the next row's start, the window's end after the last row).
Discovered(rows, w, duration) ==
  LET n == Len(rows)
      from == [k \in 1..(n + 1) |-> IF k = 1 THEN w.from ELSE rows[k - 1].endTime]
      until == [k \in 1..(n + 1) |-> IF k = n + 1 THEN w.to ELSE rows[k].startTime]
      RECURSIVE Slots(_)
      Slots(k) ==
        IF k > n + 1 THEN <<>>
        ELSE (IF from[k] + duration <= until[k]
              THEN << <<from[k], from[k] + duration>> >>
              ELSE <<>>) \o Slots(k + 1)
  IN  Slots(1)

\* (startTime, endTime) of the suggestions of a list.
Times(suggestions) ==
  [k \in 1..Len(suggestions) |->
     <<suggestions[k].startTime, suggestions[k].endTime>>]

FirstThree(slots) == SubSeq(slots, 1, IF Len(slots) < 3 THEN Len(slots) ELSE 3)

\* C16: suggestAlternativeTimes returns at most 3 suggestions, each as long
\* as the requested shift, in discovery order (start of the window, gaps
\* between consecutive rows chronologically, after the last row): the list is
\* the first three slots of that order.
SuggestionsInDiscoveryOrder ==
  Suggested =>
    LET suggestions == resp.suggestions[1]
        duration == resp.input.endTime - resp.input.startTime
        rows == RowsOfTheDay(shifts, resp.input, resp.organizationId)
        windows == WindowsOn(availability, resp.input)
    IN  /\ Len(suggestions) <= 3
        /\ \A k \in 1..Len(suggestions) :
             suggestions[k].endTime - suggestions[k].startTime = duration
        /\ windows # {} =>
             \E w \in windows, listing \in OrderByStartTime(rows) :
               Times(suggestions) = FirstThree(Discovered(listing, w, duration))

\* Four slots were discovered (before the first row, two gaps, after the last
\* row) and three were returned.
SuggestionsInDiscoveryOrderWitness ==
  /\ Suggested
  /\ Len(resp.suggestions[1]) = 3
  /\ \E w \in WindowsOn(availability, resp.input) :
       \E listing \in OrderByStartTime(RowsOfTheDay(shifts, resp.input,
                                                     resp.organizationId)) :
         /\ Len(listing) = 3
         /\ Len(Discovered(listing, w,
                           resp.input.endTime - resp.input.startTime)) = 4

\* ------------------------------------------------------------ idempotence
\* The results checkShiftConflicts may give for the request of the last
\* response on the tables as they are.
ResultsNow ==
  checkShiftConflicts(shifts, availability, employees, resp.input,
                      resp.organizationId)

\* The lists suggestAlternativeTimes may give for it.
SuggestionsNow ==
  suggestAlternativeTimes(shifts, availability, resp.input, resp.organizationId)

\* C20: a second evaluation of checkShiftConflicts for the same request on
\* the unchanged store gives the result of the first (same conflicts, same
\* details, the conflictingShiftId among them, same canOverride), and a
\* second evaluation of suggestAlternativeTimes gives the same list.
SecondEvaluationEqualsFirst ==
  (resp.op = "checkConflicts" /\ HasResult) =>
    /\ \A again \in ResultsNow : again = resp.result[1]
    /\ \A again \in SuggestionsNow :
         resp.suggestions # <<>> => again = resp.suggestions[1]

\* C20 up to the row an overlap names: the second result has the conflict
\* types, severities and canOverride of the first.
SecondVerdictEqualsFirst ==
  (resp.op = "checkConflicts" /\ HasResult) =>
    \A again \in ResultsNow :
      /\ again.hasConflicts = resp.result[1].hasConflicts
      /\ again.canOverride = resp.result[1].canOverride
      /\ Len(again.conflicts) = Len(resp.result[1].conflicts)
      /\ \A k \in 1..Len(again.conflicts) :
           /\ again.conflicts[k].type = resp.result[1].conflicts[k].type
           /\ again.conflicts[k].severity = resp.result[1].conflicts[k].severity

\* ---------------------------------------------------------------- templates
\* The calendar days of the range of a template request, both ends included;
\* none when the range starts after its end.
CalendarDays(input) ==
  IF input.startDate[1] > input.endDate[1] THEN {}
  ELSE (input.startDate[1] \div DayMs)..(input.endDate[1] \div DayMs)

\* The templates a request names that belong to the organization.
Requested(stored, input, organizationId) ==
  {t \in stored : t.id \in input.templateIds /\ t.organizationId = organizationId}

\* The (day, template) pairs of a request in which the day's day-of-week is
\* the template's.
MatchingPairs(stored, input, organizationId) ==
  {p \in CalendarDays(input) \X Requested(stored, input, organizationId) :
     p[2].dayOfWeek = p[1] % 7}

RECURSIVE SumRequired(_)
\* The sum of requiredEmployees over a set of pairs.
SumRequired(pairs) ==
  IF pairs = {} THEN 0
  ELSE LET p == CHOOSE q \in pairs : TRUE
       IN  p[2].requiredEmployees + SumRequired(pairs \ {p})

\* The previews of a list made from one template for one day.
PreviewsFor(list, p) ==
  {k \in 1..Len(list) : /\ list[k].templateId = p[2].id
                        /\ list[k].startTime \div DayMs = p[1]}

\* The answer of applyTemplates to a request is what the claim describes.
PreviewIsExpansion(answer) ==
  LET pairs == MatchingPairs(templates, answer.input, answer.organizationId)
  IN  /\ answer.count = SumRequired(pairs)
      /\ \A p \in pairs :
           Cardinality(PreviewsFor(answer.shifts, p)) = p[2].requiredEmployees

\* C17: applyTemplates answers, for a range stepped a calendar day at a time
\* with both ends included, requiredEmployees previews for every (day,
\* template) pair whose day-of-week matches, so count is the sum of
\* requiredEmployees over those pairs; it writes nothing to the store.
PreviewCountIsSum ==
  [][(Handled /\ resp'.op = "applyTemplates") =>
       /\ shifts' = shifts
       /\ templates' = templates
       /\ resp'.status = 200 => PreviewIsExpansion(resp')]_vars

\* The range does not end at an earlier time of day than it starts at and no
\* requested template has a negative head count.
PlainRequest(answer) ==
  /\ answer.input.startDate[1] % DayMs <= answer.input.endDate[1] % DayMs
  /\ \A t \in Requested(templates, answer.input, answer.organizationId) :
       t.requiredEmployees >= 0

\* C17 for such requests.
PreviewCountIsSumPlain ==
  [][(Handled /\ resp'.op = "applyTemplates") =>
       /\ shifts' = shifts
       /\ templates' = templates
       /\ (resp'.status = 200 /\ PlainRequest(resp')) => PreviewIsExpansion(resp')]_vars

\* The last request was an auto-schedule with both dates given.
Scheduled(answer) ==
  /\ answer.op = "autoScheduleShifts"
  /\ answer.input.startDate # <<>>
  /\ answer.input.endDate # <<>>

\* (employee, day) of the shifts the claim expects for one (day, template)
\* pair: the first min(requiredEmployees, E) of the employees, in the order
\* they were loaded, that have an availability row for the day-of-week.
FirstFit(A, employeesLoaded, day, template) ==
  LET able == SelectSeq(employeesLoaded,
                LAMBDA e : \E a \in A : /\ a.employeeId = e.id
                                        /\ a.dayOfWeek = day % 7)
      n == IF template.requiredEmployees < Len(able)
           THEN template.requiredEmployees ELSE Len(able)
  IN  [i \in 1..n |-> <<able[i].id, day>>]

\* ... and for the whole request: days ascending, templates as loaded.
ExpectedSchedule(A, answer) ==
  LET days == CalendarDays(answer.input)
      first == answer.input.startDate[1] \div DayMs
      loaded == answer.loaded.templates
  IN  Flatten([d \in 1..Cardinality(days) |->
        LET day == first + d - 1
            matching == SelectSeq(loaded, LAMBDA t : t.dayOfWeek = day % 7)
        IN  Flatten([k \in 1..Len(matching) |->
                       FirstFit(A, answer.loaded.employees, day, matching[k])])])

\* (employee, day) of the shifts a request created, in creation order.
CreatedSchedule(answer) ==
  [k \in 1..Len(answer.shifts) |->
     <<answer.shifts[k].employeeId, answer.shifts[k].startTime \div DayMs>>]

\* The store gained the shifts of the answer and nothing else.
StoreGained(before, after, answer) ==
  /\ after = before \cup Range(answer.shifts)
  /\ Cardinality(after) = Cardinality(before) + Len(answer.shifts)

\* C18: autoSchedule creates, for every (day, template) pair of the range
\* whose day-of-week matches, exactly min(requiredEmployees, E) shifts, E
\* being the number of the organization's employees with an availability row
\* for that day-of-week, assigned to the first such employees in load order,
\* whatever the availability hours, the existing shifts and the hour limits.
ScheduleIsFirstFit ==
  [][(Handled /\ Scheduled(resp')) =>
       /\ StoreGained(shifts, shifts', resp')
       /\ CreatedSchedule(resp') = ExpectedSchedule(availability, resp')]_vars

\* C18 for ranges that do not end at an earlier time of day than they start
\* at and templates without a negative head count.
ScheduleIsFirstFitPlain ==
  [][(Handled /\ Scheduled(resp') /\ PlainRequest(resp')) =>
       /\ StoreGained(shifts, shifts', resp')
       /\ CreatedSchedule(resp') = ExpectedSchedule(availability, resp')]_vars

\* C19: every shift autoSchedule generates goes through checkShiftConflicts
\* before it is committed, so an auto-scheduled shift that overlaps an
\* existing non-cancelled shift of the same employee is never persisted.
AutoScheduleNeverOverlaps ==
  [][(Handled /\ resp'.op = "autoScheduleShifts") =>
       \A created \in shifts' \ shifts :
         \A s \in shifts :
           (s.employeeId = created.employeeId /\ s.status # "CANCELLED")
             => ~Overlaps(s, created)]_vars

\* --------------------------------------------------------- stored templates
\* A stored template has a day of the week and two HH:mm times.
ValidTemplate(t) ==
  /\ t.dayOfWeek \in 0..6
  /\ timeRegex(t.startTime)
  /\ timeRegex(t.endTime)

\* C21: after any sequence of createTemplate and updateTemplate requests
\* every stored template has dayOfWeek in 0..6 and startTime and endTime
\* matching the HH:mm pattern.
StoredTemplatesValid == \A t \in templates : ValidTemplate(t)

\* C21 for createTemplate alone: what it stores is valid, and a request it
\* answers 400 leaves the table unchanged.
CreateTemplateValidates ==
  [][(Handled /\ resp'.op = "createTemplate") =>
       /\ \A t \in templates' \ templates : ValidTemplate(t)
       /\ resp'.status = 400 => templates' = templates]_vars

\* -------------------------------------------------------- tenant isolation
\* The employee and, when set, the department of a shift are the shift's
\* organization's.
InOwnOrganization(s) ==
  /\ \E e \in employees : e.id = s.employeeId /\ e.organizationId = s.organizationId
  /\ s.departmentId # <<>> =>
       \E d \in Departments : /\ d.id = s.departmentId[1]
                              /\ d.organizationId = s.organizationId

\* The request names an employee of another organization.
ForeignEmployee(employeeId) ==
  /\ employeeId # <<>>
  /\ \A e \in employees :
       e.id = employeeId[1] => e.organizationId # user[1].organizationId

\* The request names a department of another organization.
ForeignDepartment(departmentId) ==
  /\ departmentId # <<>>
  /\ \A d \in Departments :
       d.id = departmentId[1] => d.organizationId # user[1].organizationId

\* The answer to a request naming such an employee or department: 403, the
\* employee's failure first, and nothing written.
Refused(employeeId, departmentId) ==
  (ForeignEmployee(employeeId) \/ ForeignDepartment(departmentId)) =>
    /\ resp'.status = 403
    /\ shifts' = shifts
    /\ resp'.message = IF ForeignEmployee(employeeId) THEN <<"employee">>
                       ELSE <<"department">>

\* The shift an update names is one of the caller's organization.
OwnShift(id) ==
  \E s \in shifts : s.id = id /\ s.organizationId = user[1].organizationId

TypeRank(type) ==
  CASE type = "OVERLAPPING_SHIFT" -> 1
    [] type = "OUTSIDE_AVAILABILITY" -> 2
    [] type = "WEEKLY_HOURS_EXCEEDED" -> 3

\* C23: the result is merged only when all three evaluators have completed;
\* its conflicts are in the order overlap, availability, hours, each at most
\* once, whatever order the evaluators finished in; and it is a result of
\* running the three evaluators one after the other.
MergeIsOrdered ==
  [][(pending # <<>> /\ pending' = <<>>) =>
       LET conflicts == resp'.result[1].conflicts
       IN  /\ {pending[1].settled[k].evaluator : k \in 1..Len(pending[1].settled)}
                = Range(Evaluators)
           /\ \A i, j \in 1..Len(conflicts) :
                i < j => TypeRank(conflicts[i].type) < TypeRank(conflicts[j].type)
           /\ resp'.result[1] \in checkShiftConflicts(shifts, availability,
                                    employees, pending[1].input,
                                    pending[1].organizationId)]_vars

\* The hours check finished first and the overlap check last, and the merged
\* result lists an overlap and an hours conflict.
MergeIsOrderedWitness ==
  /\ resp.op = "checkConflicts"
  /\ resp.status = 200
  /\ pending = <<>>
  /\ resp.result # <<>>
  /\ resp.settled = <<"checkWeeklyHoursLimit", "checkAvailability",
                      "checkOverlappingShifts">>
  /\ OfType(resp.result[1], "OVERLAPPING_SHIFT") # {}
  /\ OfType(resp.result[1], "WEEKLY_HOURS_EXCEEDED") # {}

\* ------------------------------------------------------------ getWeekBounds
\* C24: for a date of any day of the week, Sunday included, getWeekBounds
\* returns 00:00:00.000 of the Monday on or before it and 23:59:59.999 of the
\* Sunday six days after that Monday, so weekStart <= date <= weekEnd, and
\* all dates of one Monday-to-Sunday week get the same bounds.
WeekIsMondayToSunday ==
  resp.op = "getWeekBounds" =>
    LET weekStart == resp.bounds.weekStart
        weekEnd == resp.bounds.weekEnd
    IN  /\ (weekStart \div DayMs) % 7 = 1
        /\ weekStart % DayMs = 0
        /\ weekStart <= resp.date
        /\ resp.date - weekStart < 7 * DayMs
        /\ (weekEnd \div DayMs) % 7 = 0
        /\ weekEnd = weekStart + 6 * DayMs + 23 * HourMs + 59 * MinuteMs + 59999
        /\ resp.date <= weekEnd
        /\ \A other \in WeekDates :
             WeekOf(other) = WeekOf(resp.date) => getWeekBounds(other) = resp.bounds

\* The last millisecond of a Sunday.
WeekIsMondayToSundayWitness ==
  /\ resp.op = "getWeekBounds"
  /\ (resp.date \div DayMs) % 7 = 0
  /\ resp.date % DayMs = DayMs - 1

\* --------------------------------------------------------- checkAvailability
\* The candidate lies within a window the employee has declared for the
\* calendar day of its startTime.
InsideWindowOfTheDay(input) ==
  LET midnight == (input.startTime \div DayMs) * DayMs
  IN  \E a \in availability :
        /\ a.employeeId = input.employeeId
        /\ a.dayOfWeek = getDay(input.startTime)
        /\ midnight + timeStringToMinutes(a.startTime) * MinuteMs <= input.startTime
        /\ input.endTime <= midnight + timeStringToMinutes(a.endTime) * MinuteMs

\* C25: a check that lists no OUTSIDE_AVAILABILITY conflict had a candidate
\* whose whole interval lies within the employee's window on the calendar day
\* of its startTime; a candidate that ends on a later calendar day than it
\* starts is always reported.
NoConflictOnlyInsideWindow ==
  Checked =>
    /\ OfType(resp.result[1], "OUTSIDE_AVAILABILITY") = {} =>
         InsideWindowOfTheDay(resp.input)
    /\ resp.input.endTime \div DayMs > resp.input.startTime \div DayMs =>
         OfType(resp.result[1], "OUTSIDE_AVAILABILITY") # {}

\* C25 for candidates that end on the calendar day they start on, not before
\* they start.
NoConflictOnlyInsideWindowSameDay ==
  ( /\ Checked
    /\ resp.input.startTime <= resp.input.endTime
    /\ resp.input.endTime \div DayMs = resp.input.startTime \div DayMs ) =>
    ( OfType(resp.result[1], "OUTSIDE_AVAILABILITY") = {} <=>
        InsideWindowOfTheDay(resp.input) )

\* ---------------------------------------------- windows of created shifts
\* The [startTime, endTime] window the preview reports for a template on the
\* calendar day of a date: an endTime not after the startTime is the next
\* day's.
PreviewWindow(template, date) ==
  LET midnight == (date \div DayMs) * DayMs
      shiftStart == midnight + timeStringToMinutes(template.startTime) * MinuteMs
      shiftEnd == midnight + timeStringToMinutes(template.endTime) * MinuteMs
  IN  <<shiftStart, IF shiftEnd <= shiftStart THEN shiftEnd + DayMs ELSE shiftEnd>>

\* Every shift of an answer of autoScheduleShifts has the window the preview
\* reports for one of the templates in `of` on the day the shift starts on,
\* and starts before it ends.
WindowsAsPreviewed(answer, of) ==
  \A k \in 1..Len(answer.shifts) :
    LET shift == answer.shifts[k]
    IN  /\ shift.startTime < shift.endTime
        /\ \E t \in of :
             /\ t.dayOfWeek = getDay(shift.startTime)
             /\ <<shift.startTime, shift.endTime>> = PreviewWindow(t, shift.startTime)

\* C26: the shifts autoScheduleShifts creates have the [startTime, endTime]
\* window the preview of applyTemplates reports for the same template and
\* date, and start before they end, overnight templates included.
AutoScheduleKeepsPreviewWindow ==
  (resp.op = "autoScheduleShifts" /\ resp.status = 201) =>
    WindowsAsPreviewed(resp, Range(resp.loaded.templates))

\* C26 for requests whose templates all end after they start.
AutoScheduleKeepsDayWindow ==
  ( /\ resp.op = "autoScheduleShifts"
    /\ resp.status = 201
    /\ \A t \in Range(resp.loaded.templates) :
         timeStringToMinutes(t.startTime) < timeStringToMinutes(t.endTime) ) =>
    WindowsAsPreviewed(resp, Range(resp.loaded.templates))

\* -------------------------------------------------------- concurrent writes
\* C27: whatever the interleaving of the check steps and the write steps of
\* concurrent createShift and updateShift requests, no two rows of one
\* employee that are not cancelled overlap in the store.
InterleavedWritesNeverOverlap ==
  \A s1, s2 \in shifts :
    ( /\ s1.id # s2.id
      /\ s1.employeeId = s2.employeeId
      /\ s1.status # "CANCELLED"
      /\ s2.status # "CANCELLED" )
    => (s1.endTime <= s2.startTime \/ s2.endTime <= s1.startTime)

\* -------------------------------------------------- failing shift writes
\* C28: autoScheduleShifts is all-or-nothing: a run in which a shift write
\* fails is answered with an error and leaves none of the shifts it wrote
\* before in the store.
AutoScheduleAllOrNothing ==
  [][ (resp'.op = "autoScheduleShifts" /\ resp'.status = 500) =>
        shifts' = shifts ]_vars

\* C28 for the rows the store held before: a run in which a shift write
\* fails is answered 500 with no shifts and leaves every row that was in the
\* store before where it was; a run answered 201 adds the shifts it answers.
AutoScheduleFailureKeepsStore ==
  [][ /\ (resp'.op = "autoScheduleShifts" /\ resp'.status = 500) =>
           (shifts \subseteq shifts' /\ resp'.shifts = <<>>)
      /\ (resp'.op = "autoScheduleShifts" /\ resp'.status = 201) =>
           shifts' = shifts \cup Range(resp'.shifts) ]_vars

\* ------------------------------------------------------------ refresh tokens
\* C29: a successful refresh with token T revokes T and issues a new token,
\* so T is exchanged successfully at most once: no two 200 answers of the
\* refresh route were given for the same token.
RefreshTokenExchangedOnce ==
  \A p, q \in refreshed : p[1] = q[1] => p = q

\* C29 step by step: a refresh answered 200 leaves the token presented
\* revoked and answers a token of a new row of the same user that is not
\* revoked; a refresh that found its token revoked is answered 401 and leaves
\* every refresh token of that user revoked; a revoked row stays revoked.
RefreshRotates ==
  [][ /\ (resp'.op = "refreshToken" /\ resp'.status = 200) =>
           \E old, new \in refreshTokens' :
             /\ <<old.token>> = resp'.input
             /\ old.revoked
             /\ <<new.token>> = resp'.refreshToken
             /\ new.userId = old.userId
             /\ ~new.revoked
             /\ \A r \in refreshTokens : r.token # new.token
      /\ (resp'.op = "refreshToken" /\ resp'.message = "reuse") =>
           /\ resp'.status = 401
           /\ \E old \in refreshTokens :
                /\ <<old.token>> = resp'.input
                /\ \A r \in refreshTokens' : r.userId = old.userId => r.revoked
      /\ \A r \in refreshTokens : r.revoked =>
           \E n \in refreshTokens' : n.token = r.token /\ n.revoked ]_vars

\* ------------------------------------------------------------------ toasts
\* The toasts of an array other than the one with this id, in their order.
OtherToasts(array, id) == SelectSeq(array, LAMBDA t : t.id # id)

\* C30: an added toast goes to the end of the list with its duration, 5000
\* when none is given, and has a timer exactly if its duration is above 0; a
\* timer that fires and removeToast(id) remove the toast with that id and
\* nothing else, keeping the order of the others, and change nothing when no
\* toast has the id; a toast of duration 0 leaves the list only by
\* removeToast or clearAll; every listed toast of a duration above 0 has its
\* timer set.
ToastLeavesOnlyWhenDismissed ==
  [][ /\ \A duration \in Durations : addToast(duration) =>
           LET toast == toasts'[Len(toasts')]
           IN  /\ toasts' = Append(toasts, toast)
               /\ toast.duration = IF duration = <<>> THEN 5000 ELSE duration[1]
               /\ \A k \in 1..Len(toasts) : toasts[k].id # toast.id
               /\ toast.duration > 0 <=>
                    \E k \in 1..Len(pending') :
                      pending'[k].id = toast.id /\ pending'[k].delay = toast.duration
      /\ \A k \in 1..Len(pending) : timerFires(k) =>
           toasts' = OtherToasts(toasts, pending[k].id)
      /\ \A id \in 1..MaxToasts : removeToast(id) =>
           toasts' = OtherToasts(toasts, id)
      /\ \A i \in 1..Len(toasts) :
           ( /\ toasts[i].duration = 0
             /\ \A j \in 1..Len(toasts') : toasts'[j] # toasts[i] ) =>
             (removeToast(toasts[i].id) \/ clearAll)
      /\ \A i \in 1..Len(toasts') :
           toasts'[i].duration > 0 =>
             \E k \in 1..Len(pending') : pending'[k].id = toasts'[i].id ]_vars

\* A toast of duration 0 is still listed after an older toast has left and
\* a newer one with the default duration has taken the id that came free;
\* only the newer one has a timer.
ToastLeavesOnlyWhenDismissedWitness ==
  /\ Len(toasts) = 2
  /\ toasts[1] = [id |-> 2, duration |-> 0]
  /\ toasts[2] = [id |-> 1, duration |-> DefaultDuration]
  /\ Len(pending) = 1
  /\ pending[1].id = 1

====
